---- MODULE Spec2Model ----
(***************************************************************************)
(* PrepGap-Lens: evidence extraction, readiness scoring, mastery feedback  *)
(* and the day planner (src/core/*.py), as state machines whose Init draws *)
(* the arguments of one call and whose actions apply the function.         *)
(*                                                                         *)
(* Numbers.  Coverage, mastery, confidence and the deltas are Python       *)
(* floats with two decimals; they are modelled as integers in hundredths   *)
(* (One = 1.00).  Minutes are Python ints and stay integers.  Quotients    *)
(* (weighted means, the prerequisite factor) are kept exact: a weighted    *)
(* mean as a fraction [num, den], a gap in units of 1/GapScale.  Binary    *)
(* floating-point rounding below that resolution is not modelled.          *)
(***************************************************************************)
EXTENDS Integers, Sequences, FiniteSets, TLC

VARIABLES
    pc,                 \* which call has been made so far
    skill_map,          \* SkillMap.skills_by_id: sequence of Skill, in insertion order
    user_text,          \* extract_skill_coverage: the text, a sequence of characters
    synonym_phrases,    \* extract_skill_coverage: None or a dict id -> phrases
    max_confidence,     \* extract_skill_coverage: the cap, in hundredths
    extraction,         \* ExtractionResult
    top_k_gaps,         \* score_readiness: how many gaps to report
    prereq_penalty,     \* score_readiness: the penalty, in hundredths
    report,             \* ScoreReport
    mastery_by_skill,   \* Dict[str, float]: function from a subset of ids to hundredths
    feedback_by_skill,  \* Dict[str, TaskFeedback]: sequence of [sid, fb], distinct sids
    deltas,             \* [easy, ok, hard]: the keyword arguments of apply_day_feedback
    feedback_result,    \* what apply_day_feedback returned, and its argument afterwards
    day,                \* generate_day_plan: day
    seed,               \* generate_day_plan: seed
    minutes_per_day,    \* generate_day_plan: the minutes the caller asks for
    reinforce_skills,   \* generate_day_plan: the reinforce queue
    retry_skills,       \* generate_day_plan: the retry queue
    top_gap_pool,       \* generate_day_plan: how many ranked gaps enter the pool
    day_plan,           \* the DayPlan returned
    first_plan,         \* the DayPlan of the call before, once the planner is called again
    global_random,      \* the state of the module-level random generator
    arg_skill,          \* choose_resource: skill
    arg_task_type,      \* choose_resource: task_type
    arg_rng,            \* choose_resource: the state of the generator rng
    chosen_resource     \* the Resource choose_resource returned

extractVars == <<user_text, synonym_phrases, max_confidence, extraction>>
scoreVars == <<top_k_gaps, prereq_penalty, report>>
feedbackVars == <<feedback_by_skill, deltas, feedback_result>>

planArgs == <<day, seed, minutes_per_day, reinforce_skills, retry_skills, top_gap_pool>>
planVars == <<planArgs, day_plan, first_plan, global_random>>

chooseVars == <<arg_skill, arg_task_type, arg_rng, chosen_resource>>

vars == <<pc, skill_map, extractVars, scoreVars, mastery_by_skill, feedbackVars, planVars,
          chooseVars>>

-----------------------------------------------------------------------------
(* Generic helpers *)

One == 100

Min(a, b) == IF a <= b THEN a ELSE b
Max(a, b) == IF a >= b THEN a ELSE b

\* a plausible slip: only the lower end is clamped
Clamp01NoUpper(x) == IF x < 0 THEN 0 ELSE x

\* _clamp01 (planner.py, score.py)
Clamp01(x) == IF x < 0 THEN 0 ELSE IF x > One THEN One ELSE x

\* dict.get(key, default) on a function whose domain is the set of keys present
Get(d, k, default) == IF k \in DOMAIN d THEN d[k] ELSE default

\* d[k] = v on a dict: overwrite or insert
Put(d, k, v) == [x \in (DOMAIN d) \cup {k} |-> IF x = k THEN v ELSE d[x]]

\* the value a missing mastery entry is read as
DefaultMastery == 5

Range(s) == {s[i] : i \in 1..Len(s)}

\* all sequences over S of length at most n
SeqsUpTo(S, n) == UNION {[1..k -> S] : k \in 0..n}

\* all sequences over S of length at most n without repeated elements
DistinctSeqsUpTo(S, n) ==
    {s \in SeqsUpTo(S, n) : \A i, j \in 1..Len(s) : i # j => s[i] # s[j]}

\* all functions from a subset of K to V (dicts with keys in K)
Dicts(K, V) == UNION {[D -> V] : D \in SUBSET K}

RECURSIVE DedupeFrom(_, _, _)
DedupeFrom(items, i, out) ==
    IF i > Len(items) THEN out
    ELSE IF items[i] \in Range(out) THEN DedupeFrom(items, i + 1, out)
    ELSE DedupeFrom(items, i + 1, Append(out, items[i]))

\* a plausible slip: no deduplication
DedupeKeepAll(items) == items

\* _dedupe: first occurrences, in order
Dedupe(items) == DedupeFrom(items, 1, <<>>)


\* Python's order on sequences (tuples, strings as code points): lexicographic
RECURSIVE LexLessFrom(_, _, _)
LexLessFrom(a, b, i) ==
    IF i > Len(b) THEN FALSE
    ELSE IF i > Len(a) THEN TRUE
    ELSE IF a[i] < b[i] THEN TRUE
    ELSE IF a[i] > b[i] THEN FALSE
    ELSE LexLessFrom(a, b, i + 1)

LexLess(a, b) == LexLessFrom(a, b, 1)

\* insert p after the last element whose key is not greater than p's
RECURSIVE InsertByKey(_, _, _)
InsertByKey(sorted, p, i) ==
    IF i = 0 \/ ~LexLess(p.key, sorted[i].key)
    THEN SubSeq(sorted, 1, i) \o <<p>> \o SubSeq(sorted, i + 1, Len(sorted))
    ELSE InsertByKey(sorted, p, i - 1)

RECURSIVE SortByKeyFrom(_, _, _)
SortByKeyFrom(pairs, i, sorted) ==
    IF i > Len(pairs) THEN sorted
    ELSE SortByKeyFrom(pairs, i + 1, InsertByKey(sorted, pairs[i], Len(sorted)))

\* list.sort(key=...) / sorted(): a stable sort of [key, val] pairs by key
SortByKey(pairs) == SortByKeyFrom(pairs, 1, <<>>)

Vals(pairs) == [i \in 1..Len(pairs) |-> pairs[i].val]

\* s[:n] for n >= 0
Take(s, n) == SubSeq(s, 1, Min(n, Len(s)))

RECURSIVE FilterSeqIn(_, _, _)
FilterSeqIn(s, S, i) ==
    IF i > Len(s) THEN <<>>
    ELSE (IF s[i] \in S THEN <<s[i]>> ELSE <<>>) \o FilterSeqIn(s, S, i + 1)

\* [x for x in s if x in S]
FilterIn(s, S) == FilterSeqIn(s, S, 1)

-----------------------------------------------------------------------------
(* Strings are sequences of one-character strings over a small alphabet *)

\* code points, for the order of str
CharOrd(c) ==
    CASE c = " " -> 32 [] c = "+" -> 43 [] c = "." -> 46
      [] c = "A" -> 65 [] c = "B" -> 66 [] c = "a" -> 97 [] c = "b" -> 98

Ords(str) == [i \in 1..Len(str) |-> CharOrd(str[i])]

LowerChar(c) == IF c = "A" THEN "a" ELSE IF c = "B" THEN "b" ELSE c

\* str.lower()
Lower(str) == [i \in 1..Len(str) |-> LowerChar(str[i])]

\* re.sub(r"[^a-z0-9+\s]", " ", s)
PunctToSpace(str) ==
    [i \in 1..Len(str) |-> IF str[i] \in {"a", "b", "+", " "} THEN str[i] ELSE " "]

\* re.sub(r"\s+", " ", s).strip(): runs of spaces become one, none at either end
RECURSIVE CollapseFrom(_, _, _)
CollapseFrom(str, i, out) ==
    IF i > Len(str) THEN out
    ELSE IF str[i] # " " THEN CollapseFrom(str, i + 1, Append(out, str[i]))
    ELSE IF out = <<>> \/ \A j \in i..Len(str) : str[j] = " "
         THEN CollapseFrom(str, i + 1, out)
    ELSE IF out[Len(out)] = " " THEN CollapseFrom(str, i + 1, out)
    ELSE CollapseFrom(str, i + 1, Append(out, " "))

Collapse(str) == CollapseFrom(str, 1, <<>>)

\* _normalize
Normalize(str) == Collapse(PunctToSpace(Lower(str)))

-----------------------------------------------------------------------------
(* The catalog (skillmap.py) *)

Resource(title, type, credibility, url) ==
    [title |-> title, type |-> type, credibility |-> credibility, url |-> url]

Skill(id, name, weight, keywords, prereqs, assessment, resources, category) ==
    [id |-> id, name |-> name, weight |-> weight, keywords |-> keywords,
     prereqs |-> prereqs, assessment |-> assessment, resources |-> resources,
     category |-> category]

\* skill_map.skills_by_id.keys()
Ids(sm) == [i \in 1..Len(sm) |-> sm[i].id]
IdSet(sm) == {sm[i].id : i \in 1..Len(sm)}

\* skill_map.skills_by_id[sid]
SkillOf(sm, sid) == sm[CHOOSE i \in 1..Len(sm) : sm[i].id = sid]

\* a three-skill catalog in the shape of data/skill_map_ml_intern.json, its
\* names and keywords spelled in the model's alphabet
BaseSkillMap ==
    << Skill("ml_basics", <<"B", ".">>, 5,
             << <<"a">>, <<"A", ".">>, <<"a", " ", "b">> >>,
             <<>>, <<"q1">>,
             << Resource(<<"blog1">>, "blog", "misleading", "u1"),
                Resource(<<"docs1">>, "docs", "interview-safe", "u2"),
                Resource(<<"yt1">>, "youtube", "interview-safe", "u3") >>,
             "core"),
       Skill("metrics", <<"a", " ", "B">>, 5,
             << <<"a">>, <<"b">>, <<"a", " ", "b">>, <<"b", " ", "a">>,
                <<"a", " ", "b", " ", "a">>, <<".">>, <<"B">> >>,
             <<>>, <<>>, <<>>,
             "core"),
       Skill("cv_leakage", <<"b", " ", "b">>, 4,
             <<>>,
             <<"ml_basics", "metrics">>, <<"q2", "q3">>,
             << Resource(<<"text1">>, "text", "good-intuition", "u4") >>,
             "eval") >>

-----------------------------------------------------------------------------
(* Evidence extractor (extract.py) *)

None == [none |-> TRUE]

\* DEFAULT_SYNONYMS, its phrases spelled in the model's alphabet
DEFAULT_SYNONYMS ==
    [x \in {"ml_basics", "cv_leakage"} |->
        IF x = "ml_basics" THEN << <<"b">> >> ELSE << <<"b", " ", "a">>, <<"B", ".", "a">> >>]

\* synonym_phrases or DEFAULT_SYNONYMS: None and the empty dict are both falsy
EffectiveSynonyms(syn) ==
    IF syn = None \/ DOMAIN syn = {} THEN DEFAULT_SYNONYMS ELSE syn

RECURSIVE NormalizedPhrasesFrom(_, _, _)
NormalizedPhrasesFrom(phrases, i, out) ==
    IF i > Len(phrases) THEN out
    ELSE LET p2 == Normalize(phrases[i])
         IN IF p2 = <<>> \/ p2 \in Range(out)
            THEN NormalizedPhrasesFrom(phrases, i + 1, out)
            ELSE NormalizedPhrasesFrom(phrases, i + 1, Append(out, p2))

\* a plausible slip: phrases are normalized but not deduplicated
SkillPhrasesWithDuplicates(skill, syn) ==
    LET ps == skill.keywords \o Get(syn, skill.id, <<>>)
        ns == [i \in 1..Len(ps) |-> Normalize(ps[i])]
    IN SelectSeq(ns, LAMBDA p : p # <<>>)

\* _skill_phrases: keywords, then the table's phrases, normalized and deduplicated
SkillPhrases(skill, syn) ==
    NormalizedPhrasesFrom(skill.keywords \o Get(syn, skill.id, <<>>), 1, <<>>)

\* _phrase_in_text: re.search(r"(^| )(phrase)( |$)", norm_text)
PhraseInText(norm_text, norm_phrase) ==
    /\ norm_phrase # <<>>
    /\ \E i \in 1..(Len(norm_text) - Len(norm_phrase) + 1) :
          LET last == i + Len(norm_phrase) - 1
          IN /\ SubSeq(norm_text, i, last) = norm_phrase
             /\ i = 1 \/ norm_text[i - 1] = " "
             /\ last = Len(norm_text) \/ norm_text[last + 1] = " "

\* _find_matches
FindMatches(norm_text, norm_phrases) ==
    SelectSeq(norm_phrases, LAMBDA p : PhraseInText(norm_text, p))

NameBonus == 10

\* a plausible slip: the table is shifted by one match
ConfidenceFromMatchesShifted(unique_match_count) ==
    IF unique_match_count <= 1 THEN 5
    ELSE IF unique_match_count = 2 THEN 35
    ELSE IF unique_match_count = 3 THEN 55
    ELSE IF unique_match_count = 4 THEN 70
    ELSE 90

\* _confidence_from_matches
ConfidenceFromMatches(unique_match_count) ==
    IF unique_match_count <= 0 THEN 5
    ELSE IF unique_match_count = 1 THEN 35
    ELSE IF unique_match_count = 2 THEN 55
    ELSE IF unique_match_count = 3 THEN 70
    ELSE IF unique_match_count = 4 THEN 82
    ELSE 90

\* sorted(matched)
SortedStrings(strs) ==
    Vals(SortByKey([i \in 1..Len(strs) |-> [key |-> Ords(strs[i]), val |-> strs[i]]]))

\* the body of the loop of extract_skill_coverage for one skill
ExtractSkill(text, skill, syn, maxc) ==
    LET matched == FindMatches(text, SkillPhrases(skill, syn))
        conf0   == ConfidenceFromMatches(Len(matched))
        conf    == IF PhraseInText(text, Normalize(skill.name))
                   THEN Min(maxc, conf0 + NameBonus) ELSE conf0
    IN [coverage |-> Min(maxc, conf),
        evidence |-> [skill_id |-> skill.id,
                      matched_phrases |-> SortedStrings(matched),
                      match_count |-> Len(matched)]]

\* extract_skill_coverage
ExtractSkillCoverage(raw_text, sm, syn_arg, maxc) ==
    LET syn  == EffectiveSynonyms(syn_arg)
        text == Normalize(raw_text)
        per  == [sid \in IdSet(sm) |-> ExtractSkill(text, SkillOf(sm, sid), syn, maxc)]
    IN [coverage_by_skill |-> [sid \in IdSet(sm) |-> per[sid].coverage],
        evidence_by_skill |-> [sid \in IdSet(sm) |-> per[sid].evidence],
        order |-> Ids(sm)]

-----------------------------------------------------------------------------
(* Readiness scorer (score.py) *)

\* below this coverage (or mastery) a prerequisite counts as missing
PrereqThreshold == 55

\* a gap is an integer count of 1/GapScale: GapScale = One * PrereqThreshold makes
\* (1 - c) and prereq_penalty * (0.55 - pre_cov) / 0.55 both whole numbers
GapScale == 5500

\* a weighted mean total / total_w as an exact fraction of hundredths
Frac(num, den) == [num |-> num, den |-> den]

\* _clamp01 on a fraction
Clamp01Frac(f) ==
    IF f.num < 0 THEN Frac(0, 1)
    ELSE IF f.num > One * f.den THEN Frac(One, 1)
    ELSE f

RECURSIVE WeightedSums(_, _, _, _)
WeightedSums(skills, coverage, i, acc) ==
    IF i > Len(skills) THEN acc
    ELSE LET w == skills[i].weight
             c == Clamp01(Get(coverage, skills[i].id, 0))
         IN WeightedSums(skills, coverage, i + 1,
                         [total_w |-> acc.total_w + w, total |-> acc.total + w * c])

\* (total / total_w) if total_w > 0 else 0.0
WeightedMean(skills, coverage) ==
    LET sums == WeightedSums(skills, coverage, 1, [total_w |-> 0, total |-> 0])
    IN IF sums.total_w > 0 THEN Frac(sums.total, sums.total_w) ELSE Frac(0, 1)

\* skill_map.categories: the category names, in the order the loader met them
Categories(sm) == Dedupe([i \in 1..Len(sm) |-> sm[i].category])

InCategory(sm, cat) == SelectSeq(sm, LAMBDA sk : sk.category = cat)

RECURSIVE PrereqScan(_, _, _, _)
PrereqScan(prereqs, coverage, i, acc) ==
    IF i > Len(prereqs) THEN acc
    ELSE LET pre_cov == Clamp01(Get(coverage, prereqs[i], 0))
         IN IF pre_cov < PrereqThreshold
            THEN PrereqScan(prereqs, coverage, i + 1,
                            [missing |-> Append(acc.missing, prereqs[i]),
                             factor  |-> acc.factor + (PrereqThreshold - pre_cov)])
            ELSE PrereqScan(prereqs, coverage, i + 1, acc)

Gap(skill, c, gap, prereqs_missing) ==
    [skill_id |-> skill.id, skill_name |-> skill.name, category |-> skill.category,
     weight |-> skill.weight, coverage |-> c, gap |-> gap,
     prereqs_missing |-> prereqs_missing]

\* a plausible slip: the prerequisite penalty is never added
SkillGapNoPenalty(skill, coverage, penalty) ==
    LET c    == Clamp01(Get(coverage, skill.id, 0))
        scan == PrereqScan(skill.prereqs, coverage, 1, [missing |-> <<>>, factor |-> 0])
    IN Gap(skill, c, PrereqThreshold * (One - c), scan.missing)

\* the body of the loop of _compute_gaps; factor counts 1/55ths, the gap 1/5500ths
SkillGap(skill, coverage, penalty) ==
    LET c    == Clamp01(Get(coverage, skill.id, 0))
        gap0 == PrereqThreshold * (One - c)
        scan == PrereqScan(skill.prereqs, coverage, 1, [missing |-> <<>>, factor |-> 0])
        gap  == IF scan.missing # <<>>
                THEN Min(GapScale, gap0 + penalty * Min(PrereqThreshold, scan.factor))
                ELSE gap0
    IN Gap(skill, c, IF gap < 0 THEN 0 ELSE IF gap > GapScale THEN GapScale ELSE gap,
           scan.missing)

\* _compute_gaps
ComputeGaps(sm, coverage, penalty) ==
    [i \in 1..Len(sm) |-> SkillGap(sm[i], coverage, penalty)]

\* a plausible slip: the name is compared as written, not lower-cased
GapPriorityCaseSensitive(g) ==
    <<-(g.gap * g.weight), -g.weight, -g.gap>> \o Ords(g.skill_name)

\* _gap_priority: the sort key (-impact, -weight, -gap, name.lower())
GapPriority(g) ==
    <<-(g.gap * g.weight), -g.weight, -g.gap>> \o Ords(Lower(g.skill_name))

\* gaps.sort(key=_gap_priority)
SortGaps(gaps) ==
    Vals(SortByKey([i \in 1..Len(gaps) |-> [key |-> GapPriority(gaps[i]), val |-> gaps[i]]]))

\* score_readiness
ScoreReadiness(sm, ext, top_k, penalty) ==
    LET coverage == ext.coverage_by_skill
        cats     == Categories(sm)
        gaps     == SortGaps(ComputeGaps(sm, coverage, penalty))
    IN [readiness_overall     |-> Clamp01Frac(WeightedMean(sm, coverage)),
        readiness_by_category |->
            [cat \in Range(cats) |-> Clamp01Frac(WeightedMean(InCategory(sm, cat), coverage))],
        coverage_by_skill     |-> [k \in DOMAIN coverage |-> Clamp01(coverage[k])],
        top_gaps              |-> Take(gaps, Max(0, top_k))]

-----------------------------------------------------------------------------
(* Resource selector (planner.py: choose_resource) *)

\* random.Random(seed + day) is a deterministic generator: a small congruential
\* generator stands for it.  Its state after seeding:
RngModulus == 16

\* a plausible slip: the module-level generator is used instead of a seeded one
RngSeedGlobal(a_seed, a_day) == global_random

\* rng = random.Random(seed + day)
RngSeed(a_seed, a_day) == (a_seed + a_day) % RngModulus

\* the generator's state after a draw among n
RngNext(state, n) == (5 * state + 3 + n) % RngModulus

\* rng.choice(top): the index drawn among Len(top), from the state after the draw
RngIndex(state, n) == 1 + ((state \div 4) % n)

\* cred_rank.get(res.credibility, 9)
CredRank(credibility) ==
    CASE credibility = "interview-safe" -> 0
      [] credibility = "good-intuition" -> 1
      [] credibility = "misleading" -> 2
      [] OTHER -> 9

TypeRank(task_type, type) ==
    IF task_type = "learn"
    THEN (IF type = "youtube" THEN 0 ELSE IF type \in {"docs", "blog"} THEN 1 ELSE 2)
    ELSE IF task_type = "practice"
    THEN (IF type \in {"docs", "blog"} THEN 0 ELSE 1)
    ELSE 0

\* a plausible slip: the resources are taken in catalog order, the sort is missing
UnrankedResources(skill, task_type) == skill.resources

\* resources.sort(key=rank)
RankedResources(skill, task_type) ==
    Vals(SortByKey([i \in 1..Len(skill.resources) |->
        [key |-> <<CredRank(skill.resources[i].credibility),
                   TypeRank(task_type, skill.resources[i].type)>>,
         val |-> skill.resources[i]]]))

\* choose_resource: the resource, and the generator as the call leaves it
ChooseResource(skill, task_type, rng) ==
    IF skill.resources = <<>>
    THEN [res |-> Resource(skill.name \o <<" (no resource yet)">>, "text", "good-intuition", ""),
          rng |-> rng]
    ELSE LET top  == Take(RankedResources(skill, task_type), 2)
             next == RngNext(rng, Len(top))
         IN [res |-> top[RngIndex(next, Len(top))], rng |-> next]

-----------------------------------------------------------------------------
(* Day planner (planner.py: generate_day_plan) *)

MinMinutesPerDay == 30
FocusCeiling == 80
ReviewTarget == 68
ShortBlock == 15

\* s[:n] as Python slices: a negative n counts from the end
SliceTo(s, n) == IF n >= 0 THEN Take(s, n) ELSE SubSeq(s, 1, Max(0, Len(s) + n))

\* int(round(n / d)) for n >= 0: Python rounds halves to the even neighbour
RoundHalfEven(n, d) ==
    LET q == n \div d
        r == n % d
    IN IF 2 * r < d THEN q
       ELSE IF 2 * r > d THEN q + 1
       ELSE IF q % 2 = 0 THEN q ELSE q + 1

\* int(round(minutes_per_day * 0.45))
BucketMinutes(mpd) == RoundHalfEven(9 * mpd, 20)

\* _rank_gaps_by_mastery
RankGapsByMastery(sm, mastery) ==
    SortGaps([i \in 1..Len(sm) |->
        LET c == Clamp01(Get(mastery, sm[i].id, DefaultMastery))
        IN Gap(sm[i], c, PrereqThreshold * (One - c),
               SelectSeq(sm[i].prereqs,
                         LAMBDA q : Get(mastery, q, DefaultMastery) < PrereqThreshold))])

RECURSIVE FocusScan(_, _, _, _)
FocusScan(scored, i, focus, max_focus) ==
    IF i > Len(scored) \/ Len(focus) >= max_focus THEN focus
    ELSE IF scored[i].key[1] >= FocusCeiling THEN FocusScan(scored, i + 1, focus, max_focus)
    ELSE FocusScan(scored, i + 1, Append(focus, scored[i].val), max_focus)

\* a plausible slip: the candidates below the ceiling are taken in pool order, unsorted
PickFocusSkillsInPoolOrder(candidate_ids, mastery, max_focus) ==
    SliceTo(SelectSeq(candidate_ids,
                      LAMBDA sid : Get(mastery, sid, DefaultMastery) < FocusCeiling),
            max_focus)

\* _pick_focus_skills
PickFocusSkills(candidate_ids, mastery, max_focus) ==
    FocusScan(SortByKey([i \in 1..Len(candidate_ids) |->
                  [key |-> <<Get(mastery, candidate_ids[i], DefaultMastery)>>,
                   val |-> candidate_ids[i]]]),
              1, <<>>, max_focus)

Abs(x) == IF x < 0 THEN -x ELSE x

\* what stands for None where a skill id is expected ("if review_id" is false for both)
NoSkill == ""

\* _pick_review_skill: None when no skill qualifies
PickReviewSkill(sm, mastery, exclude) ==
    LET eligible == SelectSeq(Ids(sm),
                       LAMBDA sid : /\ sid \notin exclude
                                    /\ Get(mastery, sid, DefaultMastery) >= PrereqThreshold
                                    /\ Get(mastery, sid, DefaultMastery) <= FocusCeiling)
        sorted == SortByKey([i \in 1..Len(eligible) |->
                     [key |-> <<Abs(Get(mastery, eligible[i], DefaultMastery) - ReviewTarget)>>,
                      val |-> eligible[i]]])
    IN IF eligible = <<>> THEN NoSkill ELSE sorted[1].val

\* min(skill_map.skills_by_id.keys(), key=...): the first id of least mastery; over an
\* empty catalog min() raises (GenerateDayPlanRaises) and NoSkill stands for no value
AnyLow(sm, mastery) ==
    LET ids == Ids(sm)
        i == CHOOSE k \in 1..Len(ids) :
               /\ \A j \in 1..Len(ids) :
                     Get(mastery, ids[k], DefaultMastery) <= Get(mastery, ids[j], DefaultMastery)
               /\ \A j \in 1..(k - 1) :
                     Get(mastery, ids[j], DefaultMastery) > Get(mastery, ids[k], DefaultMastery)
    IN IF ids = <<>> THEN NoSkill ELSE ids[i]

LearnCheck(skill) == <<"learn">> \o skill.name
PracticeCheck(skill) ==
    IF skill.assessment # <<>> THEN <<"practice", skill.assessment[1]>> ELSE <<"practice-generic">>
ExplainCheck(skill) == <<"explain">> \o skill.name

PlanItem(a_day, order, skill, task_type, minutes, res, success_check) ==
    [day |-> a_day, order |-> order, skill_id |-> skill.id, skill_name |-> skill.name,
     category |-> skill.category, task_type |-> task_type, minutes |-> minutes,
     resource_title |-> res.title, resource_url |-> res.url, resource_type |-> res.type,
     credibility |-> res.credibility, success_check |-> success_check]

\* a plausible slip: a task is appended as asked, never trimmed to the budget left
AddTaskUntrimmed(st, skill, task_type, minutes, success_check, mpd, a_day) ==
    IF minutes <= 0 THEN st
    ELSE LET ch == ChooseResource(skill, task_type, st.rng)
         IN [st EXCEPT !.items = Append(@, PlanItem(a_day, st.order, skill, task_type,
                                                    minutes, ch.res, success_check)),
                       !.used_minutes = @ + minutes,
                       !.order = @ + 1,
                       !.rng = ch.rng]

\* a plausible slip: the second zero test is missing
AddTaskKeepsEmpty(st, skill, task_type, minutes, success_check, mpd, a_day) ==
    IF minutes <= 0 THEN st
    ELSE LET trimmed == IF st.used_minutes + minutes > mpd
                        THEN Max(0, mpd - st.used_minutes) ELSE minutes
             ch == ChooseResource(skill, task_type, st.rng)
         IN [st EXCEPT !.items = Append(@, PlanItem(a_day, st.order, skill, task_type,
                                                    trimmed, ch.res, success_check)),
                       !.used_minutes = @ + trimmed,
                       !.order = @ + 1,
                       !.rng = ch.rng]

\* add_task: st holds the closure's items, order, used_minutes and rng
AddTask(st, skill, task_type, minutes, success_check, mpd, a_day) ==
    IF minutes <= 0 THEN st
    ELSE LET trimmed == IF st.used_minutes + minutes > mpd
                        THEN Max(0, mpd - st.used_minutes) ELSE minutes
         IN IF trimmed <= 0 THEN st
            ELSE LET ch == ChooseResource(skill, task_type, st.rng)
                 IN [st EXCEPT !.items = Append(@, PlanItem(a_day, st.order, skill, task_type,
                                                            trimmed, ch.res, success_check)),
                               !.used_minutes = @ + trimmed,
                               !.order = @ + 1,
                               !.rng = ch.rng]

\* steps 1 and 2 of generate_day_plan: the ranking, the pool and the picks
PlanChoices(sm, mastery, reinforce, retry, pool) ==
    LET gap_ranked    == RankGapsByMastery(sm, mastery)
        top           == SliceTo(gap_ranked, pool)
        candidate_ids == Dedupe(FilterIn(retry \o reinforce
                                            \o [i \in 1..Len(top) |-> top[i].skill_id],
                                         IdSet(sm)))
        focus_ids     == PickFocusSkills(candidate_ids, mastery, 2)
        review_id     == PickReviewSkill(sm, mastery, Range(focus_ids))
        chosen        == IF review_id # NoSkill THEN Append(focus_ids, review_id) ELSE focus_ids
    IN [gap_ranked |-> gap_ranked, candidate_ids |-> candidate_ids,
        focus_ids |-> focus_ids, review_id |-> review_id,
        chosen |-> IF chosen = <<>> THEN <<AnyLow(sm, mastery)>> ELSE chosen]

\* the state the task loops work on, before the first task
PlanStart(a_seed, a_day, mpd, reinforce, retry) ==
    [items |-> <<>>, order |-> 1, used_minutes |-> 0, rng |-> RngSeed(a_seed, a_day),
     notes |-> (IF retry # <<>> THEN << <<"retry-note">> >> ELSE <<>>)
               \o (IF reinforce # <<>> THEN << <<"reinforce-note">> >> ELSE <<>>),
     learn_budget |-> BucketMinutes(mpd),
     practice_budget |-> BucketMinutes(mpd),
     explain_budget |-> mpd - BucketMinutes(mpd) - BucketMinutes(mpd)]

RECURSIVE RetryBlocksBackward(_, _, _, _, _, _)
\* a plausible slip: the retry queue is worked from its end
RetryBlocksBackward(st, sm, queue, i, mpd, a_day) ==
    IF i > Len(queue) THEN st
    ELSE IF queue[Len(queue) + 1 - i] \notin IdSet(sm)
    THEN RetryBlocksBackward(st, sm, queue, i + 1, mpd, a_day)
    ELSE RetryBlocksBackward(AddTask(st, SkillOf(sm, queue[Len(queue) + 1 - i]), "learn",
                                     ShortBlock, <<"retry">>, mpd, a_day),
                             sm, queue, i + 1, mpd, a_day)

RECURSIVE RetryBlocks(_, _, _, _, _, _)
\* 4a: for sid in retry_skills[:2]
RetryBlocks(st, sm, queue, i, mpd, a_day) ==
    IF i > Len(queue) THEN st
    ELSE IF queue[i] \notin IdSet(sm) THEN RetryBlocks(st, sm, queue, i + 1, mpd, a_day)
    ELSE RetryBlocks(AddTask(st, SkillOf(sm, queue[i]), "learn", ShortBlock, <<"retry">>,
                             mpd, a_day),
                     sm, queue, i + 1, mpd, a_day)

RECURSIVE ReinforceBlocks(_, _, _, _, _, _)
\* 4b: for sid in reinforce_skills[:2]
ReinforceBlocks(st, sm, queue, i, mpd, a_day) ==
    IF i > Len(queue) THEN st
    ELSE IF queue[i] \notin IdSet(sm) THEN ReinforceBlocks(st, sm, queue, i + 1, mpd, a_day)
    ELSE ReinforceBlocks(AddTask(st, SkillOf(sm, queue[i]), "practice", ShortBlock,
                                 PracticeCheck(SkillOf(sm, queue[i])), mpd, a_day),
                         sm, queue, i + 1, mpd, a_day)

\* 4c, one focus skill: the primer, then learn, practice and explain
FocusBlock(st, sm, mastery, sid, mpd, a_day) ==
    IF sid \notin IdSet(sm) THEN st
    ELSE LET s == SkillOf(sm, sid)
             missing_prereqs == SelectSeq(s.prereqs,
                                   LAMBDA q : Get(mastery, q, DefaultMastery) < PrereqThreshold)
             st1 == IF missing_prereqs # <<>> /\ missing_prereqs[1] \in IdSet(sm)
                    THEN LET pre == SkillOf(sm, missing_prereqs[1])
                         IN [AddTask(st, pre, "review", ShortBlock, <<"primer">> \o pre.name,
                                     mpd, a_day)
                               EXCEPT !.notes = Append(@, <<"primer-note">> \o s.name)]
                    ELSE st
             learn == Min(IF mpd >= 90 THEN 20 ELSE 15, st1.learn_budget)
             st2 == [AddTask(st1, s, "learn", learn, LearnCheck(s), mpd, a_day)
                       EXCEPT !.learn_budget = @ - learn]
             practice == Min(IF mpd >= 120 THEN 25 ELSE 20, st2.practice_budget)
             st3 == [AddTask(st2, s, "practice", practice, PracticeCheck(s), mpd, a_day)
                       EXCEPT !.practice_budget = @ - practice]
             explain == Min(10, st3.explain_budget)
         IN [AddTask(st3, s, "explain", explain, ExplainCheck(s), mpd, a_day)
               EXCEPT !.explain_budget = @ - explain]

RECURSIVE FocusBlocksReversed(_, _, _, _, _, _, _)
\* a plausible slip: the focus skills are worked from the last to the first
FocusBlocksReversed(st, sm, mastery, focus_ids, i, mpd, a_day) ==
    IF i > Len(focus_ids) THEN st
    ELSE FocusBlocksReversed(FocusBlock(st, sm, mastery, focus_ids[Len(focus_ids) + 1 - i],
                                        mpd, a_day),
                             sm, mastery, focus_ids, i + 1, mpd, a_day)

RECURSIVE FocusBlocks(_, _, _, _, _, _, _)
\* 4c: for sid in focus_ids
FocusBlocks(st, sm, mastery, focus_ids, i, mpd, a_day) ==
    IF i > Len(focus_ids) THEN st
    ELSE FocusBlocks(FocusBlock(st, sm, mastery, focus_ids[i], mpd, a_day),
                     sm, mastery, focus_ids, i + 1, mpd, a_day)

\* 4d: the review skill
ReviewBlock(st, sm, review_id, mpd, a_day) ==
    IF review_id # NoSkill /\ review_id \in IdSet(sm) /\ st.used_minutes < mpd
    THEN AddTask(st, SkillOf(sm, review_id), "review",
                 Min(ShortBlock, mpd - st.used_minutes), <<"review">>, mpd, a_day)
    ELSE st

\* a plausible slip: the overflow task is never added
OverflowBlockNever(st, sm, gap_ranked, mpd, a_day) == st

\* a plausible slip: the overflow task goes to the first ranked gap, scheduled or not
OverflowBlockFirstGap(st, sm, gap_ranked, mpd, a_day) ==
    IF st.used_minutes < mpd /\ gap_ranked # <<>>
    THEN AddTask(st, SkillOf(sm, gap_ranked[1].skill_id), "practice",
                 Min(mpd - st.used_minutes, ShortBlock),
                 PracticeCheck(SkillOf(sm, gap_ranked[1].skill_id)), mpd, a_day)
    ELSE st

\* 4e: practice on the first ranked gap no item schedules yet
OverflowBlock(st, sm, gap_ranked, mpd, a_day) ==
    IF st.used_minutes < mpd
    THEN LET remaining   == mpd - st.used_minutes
             used_skills == {st.items[i].skill_id : i \in 1..Len(st.items)}
             unused      == SelectSeq(gap_ranked, LAMBDA g : g.skill_id \notin used_skills)
         IN IF unused = <<>> THEN st
            ELSE AddTask(st, SkillOf(sm, unused[1].skill_id), "practice",
                         Min(remaining, ShortBlock),
                         PracticeCheck(SkillOf(sm, unused[1].skill_id)), mpd, a_day)
    ELSE st

\* a plausible slip: the request is used as given, without the floor of 30
EffectiveMinutesUnclamped(requested) == requested

\* minutes_per_day = int(max(30, minutes_per_day))
EffectiveMinutes(requested) == Max(MinMinutesPerDay, requested)

\* a plausible slip: the plan is made on the coverage stored in the report, not on the
\* mastery passed
GenerateDayPlanFromReport(a_day, rep, sm, mastery, requested, reinforce, retry, a_seed, pool) ==
    LET mpd == EffectiveMinutes(requested)
        cov == rep.coverage_by_skill
        ch  == PlanChoices(sm, cov, reinforce, retry, pool)
        st0 == PlanStart(a_seed, a_day, mpd, reinforce, retry)
        st1 == RetryBlocks(st0, sm, SliceTo(retry, 2), 1, mpd, a_day)
        st2 == ReinforceBlocks(st1, sm, SliceTo(reinforce, 2), 1, mpd, a_day)
        st3 == FocusBlocks(st2, sm, cov, ch.focus_ids, 1, mpd, a_day)
        st4 == ReviewBlock(st3, sm, ch.review_id, mpd, a_day)
        st5 == OverflowBlock(st4, sm, ch.gap_ranked, mpd, a_day)
    IN [day |-> a_day,
        total_minutes |-> Min(mpd, st5.used_minutes),
        items |-> st5.items,
        notes |-> Append(st5.notes, IF st5.items = <<>> THEN <<"no-tasks">> ELSE <<"tip">>)]

\* generate_day_plan
GenerateDayPlan(a_day, rep, sm, mastery, requested, reinforce, retry, a_seed, pool) ==
    LET mpd == EffectiveMinutes(requested)
        ch  == PlanChoices(sm, mastery, reinforce, retry, pool)
        st0 == PlanStart(a_seed, a_day, mpd, reinforce, retry)
        st1 == RetryBlocks(st0, sm, SliceTo(retry, 2), 1, mpd, a_day)
        st2 == ReinforceBlocks(st1, sm, SliceTo(reinforce, 2), 1, mpd, a_day)
        st3 == FocusBlocks(st2, sm, mastery, ch.focus_ids, 1, mpd, a_day)
        st4 == ReviewBlock(st3, sm, ch.review_id, mpd, a_day)
        st5 == OverflowBlock(st4, sm, ch.gap_ranked, mpd, a_day)
    IN [day |-> a_day,
        total_minutes |-> Min(mpd, st5.used_minutes),
        items |-> st5.items,
        notes |-> Append(st5.notes, IF st5.items = <<>> THEN <<"no-tasks">> ELSE <<"tip">>)]

\* what a call leaves in place of its result when it raises
Raised == [raised |-> TRUE]

\* a plausible slip: every id of the list is looked up, the membership test is missing
LookedUpUnchecked(ids, sm) == ids

\* "if sid not in skill_map.skills_by_id: continue", then skill_map.skills_by_id[sid]:
\* the ids of a loop that reach the lookup
LookedUp(ids, sm) == FilterIn(ids, IdSet(sm))

\* skill_map.skills_by_id[sid] raises KeyError for an id the catalog lacks
KeyErrors(ids, sm) == \E i \in 1..Len(ids) : ids[i] \notin IdSet(sm)

\* generate_day_plan raises: min() over the keys of an empty catalog when nothing was
\* chosen (ValueError), or a catalog lookup of one of its loops (KeyError)
GenerateDayPlanRaises(sm, mastery, reinforce, retry, pool) ==
    LET ch == PlanChoices(sm, mastery, reinforce, retry, pool)
    IN \/ ch.focus_ids = <<>> /\ ch.review_id = NoSkill /\ Ids(sm) = <<>>
       \/ KeyErrors(LookedUp(SliceTo(retry, 2), sm), sm)
       \/ KeyErrors(LookedUp(SliceTo(reinforce, 2), sm), sm)
       \/ KeyErrors(LookedUp(ch.focus_ids, sm), sm)
       \/ ch.review_id # NoSkill /\ KeyErrors(LookedUp(<<ch.review_id>>, sm), sm)

-----------------------------------------------------------------------------
(* Mastery & feedback tracker: init_mastery_from_report, apply_day_feedback *)

\* init_mastery_from_report
InitMasteryFromReport(rep) ==
    [sid \in DOMAIN rep.coverage_by_skill |-> Clamp01(rep.coverage_by_skill[sid])]


ConfidenceBonus == 2

\* a plausible slip: a task found hard lowers the mastery
DeltaOfHardLowers(fb, d) ==
    IF fb.difficulty = "easy" THEN d.easy
    ELSE IF fb.difficulty = "ok" THEN d.ok
    ELSE 0 - d.hard

DeltaOf(fb, d) ==
    IF fb.difficulty = "easy" THEN d.easy
    ELSE IF fb.difficulty = "ok" THEN d.ok
    ELSE d.hard

\* a plausible slip: the last clamp is forgotten
FeedbackMasteryUnclamped(m0, fb, d) ==
    LET m1 == m0 + DeltaOf(fb, d)
    IN IF fb.confidence >= 5 THEN m1 + ConfidenceBonus ELSE m1

\* the mastery written for a done task, from the clamped old value m0
FeedbackMastery(m0, fb, d) ==
    LET m1 == Min(One, m0 + DeltaOf(fb, d))
        m2 == IF fb.confidence <= 2 THEN m1
              ELSE IF fb.confidence >= 5 THEN Min(One, m1 + ConfidenceBonus)
              ELSE m1
    IN Clamp01(m2)

\* what one done task appends to the reinforce list
FeedbackReinforce(sid, fb) ==
    (IF fb.difficulty \notin {"easy", "ok"} THEN <<sid>> ELSE <<>>)
    \o (IF fb.confidence <= 2 THEN <<sid>> ELSE <<>>)

\* a plausible slip: a skipped task is scored like a done one
FeedbackStepScoreSkipped(acc, sid, fb, d) ==
    LET m == Clamp01(Get(acc.new_mastery, sid, DefaultMastery))
    IN [new_mastery |-> Put(acc.new_mastery, sid, FeedbackMastery(m, fb, d)),
        reinforce   |-> acc.reinforce \o FeedbackReinforce(sid, fb),
        retry       |-> IF fb.status = "skipped" THEN Append(acc.retry, sid) ELSE acc.retry]

\* one iteration of the loop over feedback_by_skill.items()
FeedbackStep(acc, sid, fb, d) ==
    LET m == Clamp01(Get(acc.new_mastery, sid, DefaultMastery))
    IN IF fb.status = "skipped"
       THEN [acc EXCEPT !.retry = Append(acc.retry, sid)]
       ELSE [new_mastery |-> Put(acc.new_mastery, sid, FeedbackMastery(m, fb, d)),
             reinforce   |-> acc.reinforce \o FeedbackReinforce(sid, fb),
             retry       |-> acc.retry]

RECURSIVE FeedbackLoop(_, _, _, _)
FeedbackLoop(acc, fbs, i, d) ==
    IF i > Len(fbs) THEN acc
    ELSE FeedbackLoop(FeedbackStep(acc, fbs[i].sid, fbs[i].fb, d), fbs, i + 1, d)

\* apply_day_feedback: the returned triple, and the argument dict as the call leaves it
\* (the loop works on a copy, so the argument is what it was)
ApplyDayFeedback(mastery, fbs, d) ==
    LET acc == FeedbackLoop([new_mastery |-> mastery, reinforce |-> <<>>, retry |-> <<>>],
                            fbs, 1, d)
    IN [new_mastery |-> acc.new_mastery,
        reinforce   |-> Dedupe(acc.reinforce),
        retry       |-> Dedupe(acc.retry),
        argument    |-> mastery]

-----------------------------------------------------------------------------
(* Inputs *)

MaxFeedback == 2

SkillIds == {"ml_basics", "metrics", "cv_leakage"}
GhostId == "ghost"

Statuses == {"done", "skipped"}
Difficulties == {"easy", "ok", "hard"}
Confidences == {1, 2, 3, 5}

TaskFeedbacks ==
    [status : {"done"}, difficulty : Difficulties, confidence : Confidences]
    \cup [status : {"skipped"}, difficulty : {"ok", "hard"}, confidence : {1, 3}]

FeedbackIds == {"ml_basics", GhostId}
FeedbackMasteryValues == {0, 50, 97, 100, 130}

FeedbackDicts ==
    {s \in SeqsUpTo([sid : FeedbackIds, fb : TaskFeedbacks], MaxFeedback) :
        \A i, j \in 1..Len(s) : i # j => s[i].sid # s[j].sid}

DefaultDeltas == [easy |-> 12, ok |-> 8, hard |-> 4]
DeltaChoices == {DefaultDeltas, [easy |-> 150, ok |-> 0, hard |-> -30]}

NoResult == [none |-> TRUE]

MaxTextLen == 5

TextAlphabet == {"a", "B", " ", "."}
Texts == SeqsUpTo(TextAlphabet, MaxTextLen)

\* the synonym_phrases argument: not given, an empty table, a caller's table
SynonymArgs ==
    {None, <<>>, [x \in {"metrics"} |-> << <<"b", " ", "b">>, <<"B", " ", "b">> >>]}

MaxConfidences == {95, 50, 100}

ExtractIdle ==
    /\ user_text = <<>>
    /\ synonym_phrases = None
    /\ max_confidence = 95
    /\ extraction = None

\* the catalog with other weights
Reweigh(sm, ws) == [i \in 1..Len(sm) |-> [sm[i] EXCEPT !.weight = ws[i]]]

\* a catalog whose prerequisites form a cycle and repeat, and whose names differ
\* only by case
CyclicSkillMap ==
    << Skill("cv_leakage", <<"a", "B">>, 3, <<>>, <<"ml_basics", "ml_basics">>, <<>>, <<>>, "eval"),
       Skill("ml_basics", <<"A", "b">>, 3, <<>>, <<"cv_leakage">>, <<>>, <<>>, "core"),
       Skill("metrics", <<"A">>, 1, <<>>, <<"metrics">>, <<>>, <<>>, "eval") >>

ScoreSkillMaps ==
    {BaseSkillMap}
    \cup {Reweigh(BaseSkillMap, ws) : ws \in {<<5, 4, 4>>, <<2, 3, 3>>}}
    \cup {CyclicSkillMap}

\* coverage as an extraction may hold it: any magnitude, ids missing, ids unknown
ScoreCoverageValues == {-50, 50, 54, 55, 60, 150}
ScoreCoverages ==
    {c \in Dicts(SkillIds \cup {GhostId}, ScoreCoverageValues) :
        GhostId \in DOMAIN c => c[GhostId] = 150}

TopKs == {0, 1, 2, 6}
PrereqPenalties == {10, 30}

ScoreIdle ==
    /\ top_k_gaps = 6
    /\ prereq_penalty = 10
    /\ report = None

FeedbackIdle ==
    /\ feedback_by_skill = <<>>
    /\ deltas = DefaultDeltas
    /\ feedback_result = NoResult

MaxQueue == 2

\* a catalog of one skill without prerequisites
SingleSkillMap ==
    << Skill("metrics", <<"a">>, 2, <<>>, <<>>, <<>>,
             << Resource(<<"docs2">>, "docs", "good-intuition", "u5"),
                Resource(<<"yt2">>, "youtube", "good-intuition", "u6") >>,
             "core") >>

\* a catalog of two skills whose weights differ, so that the order by gap x weight is
\* not the order by mastery
PairSkillMap ==
    << Skill("ml_basics", <<"b">>, 2, <<>>, <<>>, <<>>,
             << Resource(<<"docs3">>, "docs", "interview-safe", "u7") >>,
             "core"),
       Skill("metrics", <<"a">>, 5, <<>>, <<>>, <<>>, <<>>, "core") >>

PlanSkillMaps == {BaseSkillMap, SingleSkillMap, PairSkillMap}

\* a missing entry reads as 0.05; 0.55 and 0.80 are the thresholds of the picks
PlanMasteryValues == {55, 80, 85, 90}
PlanMasteries(sm) == Dicts(IdSet(sm), PlanMasteryValues)

QueueIds == {"ml_basics", GhostId}
PlanQueues ==
    {q \in SeqsUpTo(QueueIds, MaxQueue) \X SeqsUpTo(QueueIds, MaxQueue) :
        Len(q[1]) + Len(q[2]) <= MaxQueue}

RequestedMinutes == {10, 30, 90, 120}
Days == {1, 2}
Seeds == {7}
TopGapPools == {1, 8}
GlobalRandoms == {0, 1}

ChooseIdle ==
    /\ arg_skill = None
    /\ arg_task_type = "learn"
    /\ arg_rng = 0
    /\ chosen_resource = None

PlanIdle ==
    /\ day = 1
    /\ seed = 7
    /\ minutes_per_day = 120
    /\ reinforce_skills = <<>>
    /\ retry_skills = <<>>
    /\ top_gap_pool = 8
    /\ day_plan = None
    /\ first_plan = None
    /\ global_random = 0

-----------------------------------------------------------------------------
(* Specification of one extract_skill_coverage call *)

InitExtract ==
    /\ pc = "start"
    /\ skill_map = BaseSkillMap
    /\ user_text \in Texts
    /\ synonym_phrases \in SynonymArgs
    /\ max_confidence \in MaxConfidences
    /\ extraction = None
    /\ ScoreIdle
    /\ mastery_by_skill = <<>>
    /\ FeedbackIdle
    /\ PlanIdle
    /\ ChooseIdle

CallExtractSkillCoverage ==
    /\ pc \in {"start", "chain"}
    /\ extraction' = ExtractSkillCoverage(user_text, skill_map, synonym_phrases, max_confidence)
    /\ pc' = IF pc = "start" THEN "extracted" ELSE "chain_extracted"
    /\ UNCHANGED <<skill_map, user_text, synonym_phrases, max_confidence,
                   scoreVars, mastery_by_skill, feedbackVars, planVars, chooseVars>>

NextExtract == CallExtractSkillCoverage

SpecExtract == InitExtract /\ [][NextExtract]_vars

-----------------------------------------------------------------------------
(* Specification of one score_readiness call *)

InitScore ==
    /\ pc = "start"
    /\ skill_map \in ScoreSkillMaps
    /\ user_text = <<>>
    /\ synonym_phrases = None
    /\ max_confidence = 95
    /\ \E c \in ScoreCoverages :
          extraction = [coverage_by_skill |-> c, evidence_by_skill |-> <<>>, order |-> <<>>]
    /\ top_k_gaps \in TopKs
    /\ prereq_penalty \in PrereqPenalties
    /\ report = None
    /\ mastery_by_skill = <<>>
    /\ FeedbackIdle
    /\ PlanIdle
    /\ ChooseIdle

CallScoreReadiness ==
    /\ pc \in {"start", "chain_extracted"}
    /\ report' = ScoreReadiness(skill_map, extraction, top_k_gaps, prereq_penalty)
    /\ pc' = IF pc = "start" THEN "scored" ELSE "chain_scored"
    /\ UNCHANGED <<skill_map, extractVars, top_k_gaps, prereq_penalty,
                   mastery_by_skill, feedbackVars, planVars, chooseVars>>

NextScore == CallScoreReadiness

SpecScore == InitScore /\ [][NextScore]_vars

-----------------------------------------------------------------------------
(* Specification of one apply_day_feedback call *)

InitFeedback ==
    /\ pc = "start"
    /\ skill_map = <<>>
    /\ ExtractIdle
    /\ ScoreIdle
    /\ mastery_by_skill \in Dicts(FeedbackIds, FeedbackMasteryValues)
    /\ feedback_by_skill \in FeedbackDicts
    /\ deltas \in DeltaChoices
    /\ feedback_result = NoResult
    /\ PlanIdle
    /\ ChooseIdle

CallApplyDayFeedback ==
    /\ pc \in {"start", "cycle", "loop_answered"}
    /\ LET r == ApplyDayFeedback(mastery_by_skill, feedback_by_skill, deltas)
       IN /\ feedback_result' = r
          /\ mastery_by_skill' = r.argument
    /\ pc' = CASE pc = "start" -> "fed_back"
               [] pc = "cycle" -> "cycle_fed"
               [] pc = "loop_answered" -> "loop_fed"
    /\ UNCHANGED <<skill_map, extractVars, scoreVars, feedback_by_skill, deltas, planVars,
                   chooseVars>>

NextFeedback == CallApplyDayFeedback

SpecFeedback == InitFeedback /\ [][NextFeedback]_vars

-----------------------------------------------------------------------------
(* Specification of generate_day_plan: one call, then a second call with the same
   arguments made under any state of the module-level generator *)

InitPlan ==
    /\ pc = "start"
    /\ skill_map \in PlanSkillMaps
    /\ ExtractIdle
    /\ ScoreIdle
    /\ mastery_by_skill \in PlanMasteries(skill_map)
    /\ FeedbackIdle
    /\ day \in Days
    /\ seed \in Seeds
    /\ minutes_per_day \in RequestedMinutes
    /\ \E q \in PlanQueues : retry_skills = q[1] /\ reinforce_skills = q[2]
    /\ top_gap_pool \in TopGapPools
    /\ day_plan = None
    /\ first_plan = None
    /\ global_random = 0
    /\ ChooseIdle

\* where generate_day_plan is called, and where the call returns to
AfterPlan ==
    [p \in {"start", "drawn", "chain_mastered", "cycle_queued", "report", "report_changed",
            "loop_mastered", "loop_queued"} |->
        CASE p = "start" -> "planned"
          [] p = "drawn" -> "replanned"
          [] p = "chain_mastered" -> "chain_planned"
          [] p = "cycle_queued" -> "cycle_planned"
          [] p = "report" -> "report_planned"
          [] p = "report_changed" -> "report_replanned"
          [] p = "loop_mastered" -> "loop_planned"
          [] p = "loop_queued" -> "loop_planned"]

\* generate_day_plan is called on the arguments held in planArgs; a call made after the
\* module-level generator moved keeps the plan of the call before in first_plan
CallGenerateDayPlan ==
    /\ pc \in DOMAIN AfterPlan
    /\ day_plan' = IF GenerateDayPlanRaises(skill_map, mastery_by_skill, reinforce_skills,
                                            retry_skills, top_gap_pool)
                    THEN Raised
                    ELSE GenerateDayPlan(day, report, skill_map, mastery_by_skill,
                                         minutes_per_day, reinforce_skills, retry_skills,
                                         seed, top_gap_pool)
    /\ first_plan' = day_plan
    /\ pc' = AfterPlan[pc]
    /\ UNCHANGED <<skill_map, extractVars, scoreVars, mastery_by_skill, feedbackVars,
                   planArgs, global_random, chooseVars>>

\* other code draws on the module-level generator between the two calls
DrawGlobalRandom ==
    /\ pc = "planned"
    /\ \E g \in GlobalRandoms \ {global_random} : global_random' = g
    /\ pc' = "drawn"
    /\ UNCHANGED <<skill_map, extractVars, scoreVars, mastery_by_skill, feedbackVars,
                   planArgs, day_plan, first_plan, chooseVars>>

NextPlan == CallGenerateDayPlan \/ DrawGlobalRandom

SpecPlan == InitPlan /\ [][NextPlan]_vars

-----------------------------------------------------------------------------
(* Specification of one choose_resource call *)

MaxResources == 3

ChooseCredibilities == {"interview-safe", "good-intuition", "misleading", "unrated"}
ChooseTypes == {"youtube", "docs", "text"}
TaskTypes == {"learn", "practice", "explain", "review"}
ChooseRngs == {0, 1}

ResourceTitles == <<"r1", "r2", "r3", "r4", "r5">>
ResourceUrls == <<"u1", "u2", "u3", "u4", "u5">>

\* the resources of a skill: any labels and types, told apart by title and url
ChooseResourceLists ==
    {[i \in 1..Len(k) |-> Resource(<<ResourceTitles[i]>>, k[i][2], k[i][1], ResourceUrls[i])] :
        k \in SeqsUpTo(ChooseCredibilities \X ChooseTypes, MaxResources)}

InitChoose ==
    /\ pc = "choose"
    /\ skill_map = <<>>
    /\ ExtractIdle
    /\ ScoreIdle
    /\ mastery_by_skill = <<>>
    /\ FeedbackIdle
    /\ PlanIdle
    /\ \E rs \in ChooseResourceLists :
          arg_skill = Skill("metrics", <<"a">>, 2, <<>>, <<>>, <<>>, rs, "core")
    /\ arg_task_type \in TaskTypes
    /\ arg_rng \in ChooseRngs
    /\ chosen_resource = None

CallChooseResource ==
    /\ pc = "choose"
    /\ LET r == ChooseResource(arg_skill, arg_task_type, arg_rng)
       IN /\ chosen_resource' = r.res
          /\ arg_rng' = r.rng
    /\ pc' = "chosen"
    /\ UNCHANGED <<skill_map, extractVars, scoreVars, mastery_by_skill, feedbackVars, planVars,
                   arg_skill, arg_task_type>>

NextChoose == CallChooseResource

SpecChoose == InitChoose /\ [][NextChoose]_vars

-----------------------------------------------------------------------------
(* Specification of one planning cycle of app.py: apply_day_feedback on a day's feedback,
   then generate_day_plan for the next day on the mastery and the queues it returned *)

MaxCycleFeedback == 3

CycleIds == SkillIds \cup {GhostId}

\* skipped; done and hard; done with low confidence; done, easy and confident
CycleFeedbacks ==
    {[status |-> "skipped", difficulty |-> "ok", confidence |-> 3],
     [status |-> "done", difficulty |-> "hard", confidence |-> 3],
     [status |-> "done", difficulty |-> "ok", confidence |-> 1],
     [status |-> "done", difficulty |-> "easy", confidence |-> 5]}

CycleFeedbackDicts ==
    {s \in SeqsUpTo([sid : CycleIds, fb : CycleFeedbacks], MaxCycleFeedback) :
        \A i, j \in 1..Len(s) : i # j => s[i].sid # s[j].sid}

CycleMasteries == {<<>>, [sid \in SkillIds |-> 55]}

InitCycle ==
    /\ pc = "cycle"
    /\ skill_map = BaseSkillMap
    /\ ExtractIdle
    /\ ScoreIdle
    /\ mastery_by_skill \in CycleMasteries
    /\ feedback_by_skill \in CycleFeedbackDicts
    /\ deltas = DefaultDeltas
    /\ feedback_result = NoResult
    /\ day = 1
    /\ seed = 7
    /\ minutes_per_day \in RequestedMinutes
    /\ reinforce_skills = <<>>
    /\ retry_skills = <<>>
    /\ top_gap_pool = 8
    /\ day_plan = None
    /\ first_plan = None
    /\ global_random = 0
    /\ ChooseIdle

\* new_mastery, reinforce, retry = apply_day_feedback(...): the next day is planned on them
PassFeedbackToPlanner ==
    /\ pc \in {"cycle_fed", "loop_fed"}
    /\ mastery_by_skill' = feedback_result.new_mastery
    /\ reinforce_skills' = feedback_result.reinforce
    /\ retry_skills' = feedback_result.retry
    /\ day' = day + 1
    /\ pc' = IF pc = "cycle_fed" THEN "cycle_queued" ELSE "loop_queued"
    /\ UNCHANGED <<skill_map, extractVars, scoreVars, feedbackVars, seed, minutes_per_day,
                   top_gap_pool, day_plan, first_plan, global_random, chooseVars>>

NextCycle == CallApplyDayFeedback \/ PassFeedbackToPlanner \/ CallGenerateDayPlan

SpecCycle == InitCycle /\ [][NextCycle]_vars

-----------------------------------------------------------------------------
(* Specification of generate_day_plan under two reports: one call, then a second call
   with the same arguments but another report *)

\* reports of score_readiness on the catalog: nothing covered, everything covered, the
\* first skill covered; with and without top gaps
ReportCoverages(sm) ==
    {[sid \in IdSet(sm) |-> 5],
     [sid \in IdSet(sm) |-> 95],
     [sid \in IdSet(sm) |-> IF sid = sm[1].id THEN 70 ELSE 35]}

Reports(sm) ==
    {ScoreReadiness(sm, [coverage_by_skill |-> c, evidence_by_skill |-> <<>>, order |-> <<>>],
                    k, 10) : c \in ReportCoverages(sm), k \in {0, 6}}

ReportMinutes == {30, 120}

InitReport ==
    /\ pc = "report"
    /\ skill_map \in PlanSkillMaps
    /\ ExtractIdle
    /\ top_k_gaps = 6
    /\ prereq_penalty = 10
    /\ report \in Reports(skill_map)
    /\ mastery_by_skill \in PlanMasteries(skill_map)
    /\ FeedbackIdle
    /\ day = 1
    /\ seed = 7
    /\ minutes_per_day \in ReportMinutes
    /\ reinforce_skills = <<>>
    /\ retry_skills = <<>>
    /\ top_gap_pool = 8
    /\ day_plan = None
    /\ first_plan = None
    /\ global_random = 0
    /\ ChooseIdle

\* the caller holds another report when it plans again
ChangeReport ==
    /\ pc = "report_planned"
    /\ \E r \in Reports(skill_map) \ {report} : report' = r
    /\ pc' = "report_changed"
    /\ UNCHANGED <<skill_map, extractVars, top_k_gaps, prereq_penalty, mastery_by_skill,
                   feedbackVars, planVars, chooseVars>>

NextReport == CallGenerateDayPlan \/ ChangeReport

SpecReport == InitReport /\ [][NextReport]_vars

-----------------------------------------------------------------------------
(* Specification of the chain of app.py: extract_skill_coverage, score_readiness,
   init_mastery_from_report, generate_day_plan, each on what the one before returned *)

MaxChainTextLen == 3
ChainTexts == SeqsUpTo(TextAlphabet, MaxChainTextLen)

\* catalogs load_skill_map accepts, and an empty one built without it
ChainSkillMaps == {BaseSkillMap, SingleSkillMap, CyclicSkillMap, <<>>}

ChainQueues == {<<>>, <<GhostId>>, <<"ml_basics", GhostId>>}

InitChain ==
    /\ pc = "chain"
    /\ skill_map \in ChainSkillMaps
    /\ user_text \in ChainTexts
    /\ synonym_phrases = None
    /\ max_confidence = 95
    /\ extraction = None
    /\ ScoreIdle
    /\ mastery_by_skill = <<>>
    /\ FeedbackIdle
    /\ day = 1
    /\ seed = 7
    /\ minutes_per_day \in RequestedMinutes
    /\ reinforce_skills \in ChainQueues
    /\ retry_skills \in ChainQueues
    /\ top_gap_pool = 8
    /\ day_plan = None
    /\ first_plan = None
    /\ global_random = 0
    /\ ChooseIdle

\* mastery = init_mastery_from_report(report)
CallInitMasteryFromReport ==
    /\ pc \in {"chain_scored", "loop"}
    /\ mastery_by_skill' = InitMasteryFromReport(report)
    /\ pc' = IF pc = "chain_scored" THEN "chain_mastered" ELSE "loop_mastered"
    /\ UNCHANGED <<skill_map, extractVars, scoreVars, feedbackVars, planVars, chooseVars>>

NextChain ==
    \/ CallExtractSkillCoverage
    \/ CallScoreReadiness
    \/ CallInitMasteryFromReport
    \/ CallGenerateDayPlan

SpecChain == InitChain /\ [][NextChain]_vars

-----------------------------------------------------------------------------
(* Specification of the plan / feedback cycles of app.py: the mastery of a report, a
   plan, then feedback, its queues and the next day's plan, day after day *)

MaxDays == 3
MaxLoopFeedback == 1

LoopIds == {"ml_basics", GhostId}

\* the feedback of a day: at most MaxLoopFeedback skills, each with one answer
LoopFeedbackDicts ==
    {s \in SeqsUpTo([sid : LoopIds, fb : CycleFeedbacks], MaxLoopFeedback) :
        \A i, j \in 1..Len(s) : i # j => s[i].sid # s[j].sid}

InitLoop ==
    /\ pc = "loop"
    /\ skill_map = BaseSkillMap
    /\ ExtractIdle
    /\ top_k_gaps = 6
    /\ prereq_penalty = 10
    /\ report \in Reports(skill_map)
    /\ mastery_by_skill = <<>>
    /\ FeedbackIdle
    /\ PlanIdle
    /\ ChooseIdle

\* the user answers the day's plan; the last day's plan gets no answer
GiveFeedback ==
    /\ pc = "loop_planned"
    /\ day < MaxDays
    /\ feedback_by_skill' \in LoopFeedbackDicts
    /\ pc' = "loop_answered"
    /\ UNCHANGED <<skill_map, extractVars, scoreVars, mastery_by_skill, deltas,
                   feedback_result, planVars, chooseVars>>

NextLoop ==
    \/ CallInitMasteryFromReport
    \/ CallGenerateDayPlan
    \/ GiveFeedback
    \/ CallApplyDayFeedback
    \/ PassFeedbackToPlanner

SpecLoop == InitLoop /\ [][NextLoop]_vars

-----------------------------------------------------------------------------
(* Claims about generate_day_plan *)

Planned == pc \in {"planned", "drawn", "replanned"}

RECURSIVE SumMinutes(_, _)
SumMinutes(items, i) ==
    IF i > Len(items) THEN 0 ELSE items[i].minutes + SumMinutes(items, i + 1)

ItemsOf(sid) == {i \in 1..Len(day_plan.items) : day_plan.items[i].skill_id = sid}

\* C1 as stated: the summed item minutes and total_minutes never exceed the
\* minutes_per_day the caller passed, values below 30 included.
C1_WithinRequestedMinutes ==
    Planned =>
      /\ SumMinutes(day_plan.items, 1) <= minutes_per_day
      /\ day_plan.total_minutes <= minutes_per_day

\* C1 (amended): the summed item minutes and total_minutes never exceed
\* max(30, minutes_per_day): the request itself when it is at least 30, and 30 when
\* the caller asks for less.
C1_WithinEffectiveMinutes ==
    Planned =>
      /\ SumMinutes(day_plan.items, 1) <= Max(MinMinutesPerDay, minutes_per_day)
      /\ day_plan.total_minutes <= Max(MinMinutesPerDay, minutes_per_day)

\* C1 witness: a request of 30 minutes with two retries queued: the plan fills the 30
\* minutes exactly, with more tasks wanted than fit.
C1_Witness ==
    /\ Planned
    /\ minutes_per_day = 30
    /\ Len(retry_skills) = 2
    /\ Len(day_plan.items) = 2
    /\ SumMinutes(day_plan.items, 1) = 30
    /\ day_plan.total_minutes = 30

\* C2: every item of the plan has minutes > 0.
C2_ItemsHavePositiveMinutes ==
    Planned => \A i \in 1..Len(day_plan.items) : day_plan.items[i].minutes > 0

\* C2 witness: the daily budget ran out before the second focus skill, which got no
\* task, and the first focus skill's explain task was cut to what its bucket held.
C2_Witness ==
    /\ Planned
    /\ LET focus == PlanChoices(skill_map, mastery_by_skill, reinforce_skills, retry_skills,
                                top_gap_pool).focus_ids
       IN /\ Len(focus) = 2
          /\ ItemsOf(focus[2]) = {}
          /\ \E i \in ItemsOf(focus[1]) :
                day_plan.items[i].task_type = "explain" /\ day_plan.items[i].minutes < 10
    /\ day_plan.total_minutes = Max(MinMinutesPerDay, minutes_per_day)

AllMastered ==
    \A i \in 1..Len(skill_map) :
        Get(mastery_by_skill, skill_map[i].id, DefaultMastery) > FocusCeiling

\* C12: with minutes_per_day = 30 and a catalog of at least one skill the plan has at
\* least one item, total_minutes <= 30, and no note about a plan without tasks.
C12_ThirtyMinutesStillPlans ==
    (Planned /\ minutes_per_day = 30 /\ Len(skill_map) >= 1) =>
      /\ Len(day_plan.items) >= 1
      /\ day_plan.total_minutes <= 30
      /\ \A k \in 1..Len(day_plan.notes) : day_plan.notes[k] # <<"no-tasks">>

\* C12 witness: a 30-minute plan where every skill is mastered and the queues name only
\* an absent id: the one item is the overflow task.
C12_Witness ==
    /\ Planned
    /\ minutes_per_day = 30
    /\ Len(skill_map) = 3
    /\ AllMastered
    /\ retry_skills = <<GhostId>>
    /\ reinforce_skills = <<GhostId>>
    /\ Len(day_plan.items) = 1
    /\ day_plan.total_minutes = 15

-----------------------------------------------------------------------------
(* Claims about apply_day_feedback *)

InUnit(d) == \A k \in DOMAIN d : d[k] >= 0 /\ d[k] <= One

FedBack == pc = "fed_back"

FeedbackOf(sid) ==
    {feedback_by_skill[i].fb : i \in {j \in 1..Len(feedback_by_skill) :
                                        feedback_by_skill[j].sid = sid}}

Occurrences(s, x) == Cardinality({i \in 1..Len(s) : s[i] = x})

\* C4: when every value of the given mastery mapping lies in [0,1], every value of
\* the returned mapping lies in [0,1], whatever the feedback (ids absent from the
\* mapping included) and whatever the easy/ok/hard deltas (negative and above 1
\* included).
C4_MasteryStaysInUnit ==
    (FedBack /\ InUnit(mastery_by_skill)) => InUnit(feedback_result.new_mastery)

\* C4 witness: a done task for an id absent from the mapping, with a delta above 1,
\* has been scored and landed on 1.
C4_Witness ==
    /\ FedBack
    /\ InUnit(mastery_by_skill)
    /\ GhostId \notin DOMAIN mastery_by_skill
    /\ \E fb \in FeedbackOf(GhostId) :
          fb.status = "done" /\ DefaultMastery + DeltaOf(fb, deltas) > One
    /\ feedback_result.new_mastery[GhostId] = One

\* C5: the call changes the mastery only of skills with done feedback: a skill whose
\* feedback is skipped, or that has no feedback, keeps exactly the entry it had
\* (same value, or still absent), and the dict passed in is left as it was.
C5_FrameOfFeedback ==
    [][(pc = "start" /\ pc' = "fed_back") =>
         /\ mastery_by_skill' = mastery_by_skill
         /\ \A sid \in FeedbackIds :
               (\A fb \in FeedbackOf(sid) : fb.status = "skipped") =>
                  /\ (sid \in DOMAIN feedback_result'.new_mastery)
                        <=> (sid \in DOMAIN mastery_by_skill)
                  /\ sid \in DOMAIN mastery_by_skill =>
                        feedback_result'.new_mastery[sid] = mastery_by_skill[sid]]_vars

\* C5 witness: one skipped skill that has an entry, one skipped skill that has none,
\* after the call.
C5_Witness ==
    /\ FedBack
    /\ Len(feedback_by_skill) = 2
    /\ \A i \in 1..2 : feedback_by_skill[i].fb.status = "skipped"
    /\ "ml_basics" \in DOMAIN mastery_by_skill
    /\ GhostId \notin DOMAIN feedback_result.new_mastery
    /\ feedback_result.retry = <<feedback_by_skill[1].sid, feedback_by_skill[2].sid>>

\* the value C6 states for a done task
C6_Expected(old, fb) ==
    LET m1 == Min(One, old + DeltaOf(fb, deltas))
    IN IF fb.confidence >= 5 THEN Min(One, m1 + ConfidenceBonus) ELSE m1

-----------------------------------------------------------------------------
(* Claims about extract_skill_coverage *)

Extracted == pc = "extracted"

\* the distinct normalized phrases of a skill: its keywords and the phrases of the
\* table in effect, as a set
C7_PhraseSet(skill) ==
    {Normalize(q) : q \in Range(skill.keywords)
                         \cup Range(Get(EffectiveSynonyms(synonym_phrases), skill.id, <<>>))}

\* n: how many of them are found in the text
C7_Count(skill) ==
    Cardinality({p \in C7_PhraseSet(skill) : PhraseInText(Normalize(user_text), p)})

\* b: 0.10 when the normalized name is found
C7_Bonus(skill) ==
    IF PhraseInText(Normalize(user_text), Normalize(skill.name)) THEN 10 ELSE 0

\* the step table as the spec gives it
C7_Step(n) ==
    CASE n = 0 -> 5 [] n = 1 -> 35 [] n = 2 -> 55 [] n = 3 -> 70 [] n = 4 -> 82
      [] n >= 5 -> 90

\* C7: every skill gets the confidence min(max_confidence, step(n) + b); it never
\* exceeds max_confidence, and of two skills with the same name bonus the one with
\* more matched phrases has no lower confidence.
C7_ConfidenceIsStepOfMatches ==
    Extracted =>
      /\ \A i \in 1..Len(skill_map) :
           LET sk == skill_map[i]
               c  == extraction.coverage_by_skill[sk.id]
           IN /\ c = Min(max_confidence, C7_Step(C7_Count(sk)) + C7_Bonus(sk))
              /\ c <= max_confidence
              /\ extraction.evidence_by_skill[sk.id].match_count = C7_Count(sk)
      /\ \A i, j \in 1..Len(skill_map) :
           (/\ C7_Bonus(skill_map[i]) = C7_Bonus(skill_map[j])
            /\ C7_Count(skill_map[i]) <= C7_Count(skill_map[j]))
           => extraction.coverage_by_skill[skill_map[i].id]
                 <= extraction.coverage_by_skill[skill_map[j].id]

\* C7 witness: two matched phrases and no name match gave 0.55, in an extraction
\* where another skill has fewer matches.
C7_Witness ==
    /\ Extracted
    /\ max_confidence = 95
    /\ \E i \in 1..Len(skill_map) :
          /\ C7_Count(skill_map[i]) = 2
          /\ C7_Bonus(skill_map[i]) = 0
          /\ extraction.coverage_by_skill[skill_map[i].id] = 55
    /\ \E j \in 1..Len(skill_map) : extraction.evidence_by_skill[skill_map[j].id].match_count = 0

-----------------------------------------------------------------------------
(* Claims about score_readiness *)

Scored == pc = "scored"

FracInUnit(f) == f.den > 0 /\ f.num >= 0 /\ f.num <= One * f.den

\* C8: readiness_overall, every category readiness, every coverage_by_skill value and
\* the coverage and gap of every Gap of top_gaps lie in [0,1], whatever the
\* magnitude of the extraction's coverage values and whichever skills it lacks.
C8_ScoresInUnit ==
    Scored =>
      /\ FracInUnit(report.readiness_overall)
      /\ \A cat \in DOMAIN report.readiness_by_category :
            FracInUnit(report.readiness_by_category[cat])
      /\ InUnit(report.coverage_by_skill)
      /\ \A i \in 1..Len(report.top_gaps) :
            /\ report.top_gaps[i].coverage >= 0 /\ report.top_gaps[i].coverage <= One
            /\ report.top_gaps[i].gap >= 0 /\ report.top_gaps[i].gap <= GapScale

\* C8 witness: a report over coverage values above 1 and below 0 with a skill
\* missing, listing every skill as a gap.
C8_Witness ==
    /\ Scored
    /\ \E a, b, c \in SkillIds :
          /\ a \notin DOMAIN extraction.coverage_by_skill
          /\ b \in DOMAIN extraction.coverage_by_skill /\ extraction.coverage_by_skill[b] > One
          /\ c \in DOMAIN extraction.coverage_by_skill /\ extraction.coverage_by_skill[c] < 0
          /\ report.coverage_by_skill[b] = One
          /\ report.coverage_by_skill[c] = 0
    /\ Len(report.top_gaps) = Len(skill_map)

\* the coverage the scorer reads for an id: clamped, 0 when the extraction lacks it
C10_Coverage(sid) == Clamp01(Get(extraction.coverage_by_skill, sid, 0))

\* the prereqs of a skill whose coverage is below 0.55, in the skill's order
C10_Missing(skill) == SelectSeq(skill.prereqs, LAMBDA p : C10_Coverage(p) < PrereqThreshold)

RECURSIVE C10_Shortfall(_, _)
\* the sum over the missing prereqs of (0.55 - coverage), in hundredths
C10_Shortfall(missing, i) ==
    IF i > Len(missing) THEN 0
    ELSE (PrereqThreshold - C10_Coverage(missing[i])) + C10_Shortfall(missing, i + 1)

\* 1 - coverage, in 1/GapScale
C10_PlainGap(skill) == PrereqThreshold * (One - C10_Coverage(skill.id))

\* min(1, (1 - c) + prereq_penalty * min(1, sum / 0.55)), in 1/GapScale
C10_BoostedGap(skill) ==
    LET sum == C10_Shortfall(C10_Missing(skill), 1)
    IN Min(GapScale,
           C10_PlainGap(skill) + prereq_penalty * Min(PrereqThreshold, sum))

C10_Gap(skill) ==
    IF C10_Missing(skill) # <<>> THEN C10_BoostedGap(skill) ELSE C10_PlainGap(skill)

\* C9's order: impact = gap x weight descending, then weight descending, then gap
\* descending, then lower-cased name ascending
C9_Before(g, w, name, g2, w2, name2) ==
    \/ g * w > g2 * w2
    \/ /\ g * w = g2 * w2
       /\ \/ w > w2
          \/ /\ w = w2
             /\ \/ g > g2
                \/ g = g2 /\ LexLess(Ords(Lower(name)), Ords(Lower(name2)))

C9_GapBefore(a, b) ==
    C9_Before(a.gap, a.weight, a.skill_name, b.gap, b.weight, b.skill_name)

C9_Index(sid) == CHOOSE i \in 1..Len(skill_map) : skill_map[i].id = sid

\* C9: top_gaps holds min(top_k_gaps, number of skills) distinct catalog skills; of two
\* entries the earlier one comes first in C9's order, or they are equal in it and the
\* earlier one is earlier in the catalog; and no skill left out comes before an
\* entry in C9's order.  The list is thus a function of the inputs alone.
C9_TopGapsAreTheFirstByPriority ==
    Scored =>
      LET tg == report.top_gaps
      IN /\ Len(tg) = Min(top_k_gaps, Len(skill_map))
         /\ \A i \in 1..Len(tg) :
               /\ tg[i].skill_id \in IdSet(skill_map)
               /\ tg[i].weight = SkillOf(skill_map, tg[i].skill_id).weight
               /\ tg[i].skill_name = SkillOf(skill_map, tg[i].skill_id).name
         /\ \A i, j \in 1..Len(tg) :
               i < j =>
                 /\ tg[i].skill_id # tg[j].skill_id
                 /\ \/ C9_GapBefore(tg[i], tg[j])
                    \/ /\ ~C9_GapBefore(tg[j], tg[i])
                       /\ C9_Index(tg[i].skill_id) < C9_Index(tg[j].skill_id)
         /\ \A k \in 1..Len(skill_map) :
               (\A i \in 1..Len(tg) : tg[i].skill_id # skill_map[k].id) =>
                  \A i \in 1..Len(tg) :
                     ~C9_Before(C10_Gap(skill_map[k]), skill_map[k].weight, skill_map[k].name,
                                tg[i].gap, tg[i].weight, tg[i].skill_name)

\* C9 witness: two skills tie on impact, weight and gap, the one whose lower-cased
\* name is smaller is reported and the other, first in the catalog, is left out.
C9_Witness ==
    /\ Scored
    /\ top_k_gaps = 1
    /\ Len(report.top_gaps) = 1
    /\ \E k \in 1..Len(skill_map) :
          /\ skill_map[k].id # report.top_gaps[1].skill_id
          /\ k < C9_Index(report.top_gaps[1].skill_id)
          /\ skill_map[k].weight = report.top_gaps[1].weight
          /\ C10_Gap(skill_map[k]) = report.top_gaps[1].gap
          /\ LexLess(Ords(skill_map[k].name), Ords(report.top_gaps[1].skill_name))

\* C10: for a positive prereq_penalty, prereqs_missing is exactly the prereqs with
\* coverage below 0.55; with one missing the gap is
\* min(1, (1 - c) + prereq_penalty * min(1, sum of (0.55 - pre_cov) / 0.55)), strictly
\* above 1 - c when 1 - c < 1 and at most prereq_penalty above it; with none missing
\* the gap is 1 - c.
C10_PrereqBoost ==
    Scored =>
      \A i \in 1..Len(report.top_gaps) :
        LET g  == report.top_gaps[i]
            sk == SkillOf(skill_map, g.skill_id)
        IN /\ g.prereqs_missing = C10_Missing(sk)
           /\ g.coverage = C10_Coverage(sk.id)
           /\ g.prereqs_missing # <<>> =>
                 /\ g.gap = C10_BoostedGap(sk)
                 /\ C10_PlainGap(sk) < GapScale => g.gap > C10_PlainGap(sk)
                 /\ g.gap <= C10_PlainGap(sk) + prereq_penalty * PrereqThreshold
           /\ g.prereqs_missing = <<>> => g.gap = C10_PlainGap(sk)

\* C10 witness: cv_leakage, coverage 0.60, with its prereq ml_basics at 0.50 and
\* metrics at 0.55: ml_basics alone is missing and the gap is above 0.40.
C10_Witness ==
    /\ Scored
    /\ skill_map = BaseSkillMap
    /\ \A sid \in SkillIds : sid \in DOMAIN extraction.coverage_by_skill
    /\ extraction.coverage_by_skill["ml_basics"] = 50
    /\ extraction.coverage_by_skill["metrics"] = 55
    /\ extraction.coverage_by_skill["cv_leakage"] = 60
    /\ \E i \in 1..Len(report.top_gaps) :
          /\ report.top_gaps[i].skill_id = "cv_leakage"
          /\ report.top_gaps[i].prereqs_missing = <<"ml_basics">>
          /\ report.top_gaps[i].gap > PrereqThreshold * 40
          /\ report.top_gaps[i].gap < PrereqThreshold * 40 + prereq_penalty * PrereqThreshold

-----------------------------------------------------------------------------
(* Claims about the chain of app.py *)

\* what load_skill_map accepts: at least one skill, every prereq id a catalog id
WellFormed(sm) ==
    /\ Len(sm) >= 1
    /\ \A i \in 1..Len(sm) : \A k \in 1..Len(sm[i].prereqs) : sm[i].prereqs[k] \in IdSet(sm)

IsDayPlan(p) ==
    /\ p # Raised
    /\ DOMAIN p = {"day", "total_minutes", "items", "notes"}

\* C11: for a well-formed catalog the chain extract_skill_coverage -> score_readiness ->
\* init_mastery_from_report -> generate_day_plan ends with a DayPlan, never with an
\* exception, for every text (the empty one included), every minutes_per_day and every
\* retry and reinforce list (ids absent from the catalog included).
C11_ChainReturnsAPlan ==
    (pc = "chain_planned" /\ WellFormed(skill_map)) => IsDayPlan(day_plan)

\* C11 witness: the chain ran on the empty text with queues that name an absent id,
\* and returned a plan with items.
C11_Witness ==
    /\ pc = "chain_planned"
    /\ WellFormed(skill_map)
    /\ user_text = <<>>
    /\ retry_skills = <<"ml_basics", GhostId>>
    /\ reinforce_skills = <<GhostId>>
    /\ minutes_per_day = 10
    /\ IsDayPlan(day_plan)
    /\ day_plan.items # <<>>

\* without a skill there is nothing to fall back to: the call raises
C11_EmptyCatalogRaises ==
    /\ pc = "chain_planned"
    /\ skill_map = <<>>
    /\ day_plan = Raised

-----------------------------------------------------------------------------
(* Claims about choose_resource *)

\* resource a ranks strictly better than resource b for the task: credibility rank
\* first, then the task-type preference rank
C13_Better(a, b) ==
    \/ CredRank(a.credibility) < CredRank(b.credibility)
    \/ /\ CredRank(a.credibility) = CredRank(b.credibility)
       /\ TypeRank(arg_task_type, a.type) < TypeRank(arg_task_type, b.type)

\* C13: choose_resource returns the placeholder (good-intuition, empty url) for a skill
\* without resources, and otherwise one of the skill's own resources with at most one
\* resource of the skill ranking strictly better.
C13_ChosenAmongTheBestTwo ==
    pc = "chosen" =>
      IF arg_skill.resources = <<>>
      THEN /\ chosen_resource.credibility = "good-intuition"
           /\ chosen_resource.url = ""
      ELSE /\ \E i \in 1..Len(arg_skill.resources) : arg_skill.resources[i] = chosen_resource
           /\ Cardinality({i \in 1..Len(arg_skill.resources) :
                             C13_Better(arg_skill.resources[i], chosen_resource)}) <= 1

\* C13 witness: among three resources listed worst first, the second best was drawn.
C13_Witness ==
    /\ pc = "chosen"
    /\ Len(arg_skill.resources) = 3
    /\ arg_task_type = "learn"
    /\ C13_Better(arg_skill.resources[3], arg_skill.resources[2])
    /\ C13_Better(arg_skill.resources[2], arg_skill.resources[1])
    /\ chosen_resource = arg_skill.resources[2]

\* a skill without resources got the placeholder
C13_PlaceholderReturned ==
    /\ pc = "chosen"
    /\ arg_skill.resources = <<>>
    /\ chosen_resource.type = "text"

-----------------------------------------------------------------------------
(* Claims about one planning cycle *)

\* the ids of the feedback entries marked skipped, in feedback order
C14_Skipped ==
    LET sk == SelectSeq(feedback_by_skill, LAMBDA e : e.fb.status = "skipped")
    IN [i \in 1..Len(sk) |-> sk[i].sid]

\* the first two of a queue
C14_FirstTwo(queue) == SubSeq(queue, 1, Min(2, Len(queue)))

\* the catalog skills among the first two reinforce skills
C14_Reinforced ==
    SelectSeq(C14_FirstTwo(reinforce_skills), LAMBDA sid : sid \in IdSet(skill_map))

\* the minutes left when the j-th reinforce task is reached
C14_Left(j) ==
    Max(MinMinutesPerDay, minutes_per_day)
        - 15 * Len(C14_FirstTwo(retry_skills)) - 15 * (j - 1)

\* C14: after apply_day_feedback on skipped feedback for catalog skills, the retry list
\* is the skipped ids in feedback order, and the next plan, made on the returned mastery
\* and queues, starts with a 15-minute learn task for each of the first two retry
\* skills in list order, directly followed by a practice task of at most 15 minutes
\* for each of the first two reinforce skills while the daily budget lasts.
C14_QueuesOpenTheNextPlan ==
    (pc = "cycle_planned" /\ \A i \in 1..Len(C14_Skipped) : C14_Skipped[i] \in IdSet(skill_map)) =>
      LET first == C14_FirstTwo(retry_skills)
          items == day_plan.items
      IN /\ retry_skills = C14_Skipped
         /\ reinforce_skills = feedback_result.reinforce
         /\ mastery_by_skill = feedback_result.new_mastery
         /\ Len(items) >= Len(first)
         /\ \A i \in 1..Len(first) :
               /\ items[i].skill_id = first[i]
               /\ items[i].task_type = "learn"
               /\ items[i].minutes = 15
               /\ items[i].order = i
         /\ \A j \in 1..Len(C14_Reinforced) :
               C14_Left(j) > 0 =>
                 /\ Len(items) >= Len(first) + j
                 /\ items[Len(first) + j].skill_id = C14_Reinforced[j]
                 /\ items[Len(first) + j].task_type = "practice"
                 /\ items[Len(first) + j].minutes = Min(15, C14_Left(j))

\* C14 witness: three catalog skills were skipped, the next plan opens with the retries
\* of the first two, in feedback order, and the third gets no retry task.
C14_Witness ==
    /\ pc = "cycle_planned"
    /\ retry_skills = <<"metrics", "ml_basics", "cv_leakage">>
    /\ minutes_per_day = 120
    /\ day_plan.items[1].skill_id = "metrics"
    /\ day_plan.items[2].skill_id = "ml_basics"
    /\ day_plan.items[3].task_type # "learn" \/ day_plan.items[3].minutes # 15

\* a retry and two reinforce skills: the practice tasks follow the retry directly
C14_ReinforceFollowsRetry ==
    /\ pc = "cycle_planned"
    /\ Len(retry_skills) = 1
    /\ Len(C14_Reinforced) = 2
    /\ minutes_per_day = 30
    /\ Len(day_plan.items) = 2
    /\ day_plan.items[2].task_type = "practice"

-----------------------------------------------------------------------------
(* Claims about generate_day_plan and the report *)

\* C15: two calls of generate_day_plan that differ only in the report argument return
\* the same DayPlan.
C15_ReportDoesNotMatter ==
    pc = "report_replanned" => day_plan = first_plan

\* C15 witness: the second call was made with a report that holds every skill covered
\* and lists no gap, on a mastery that knows of no skill; the plan still has its focus
\* tasks.
C15_Witness ==
    /\ pc = "report_replanned"
    /\ Len(skill_map) = 3
    /\ mastery_by_skill = <<>>
    /\ \A sid \in DOMAIN report.coverage_by_skill : report.coverage_by_skill[sid] = 95
    /\ report.top_gaps = <<>>
    /\ Len(day_plan.items) >= 3
    /\ day_plan = first_plan

-----------------------------------------------------------------------------
(* Claims about the fallback of generate_day_plan *)

\* the catalog skill whose mastery is strictly below that of every other one
StrictlyLowest(sid) ==
    /\ sid \in IdSet(skill_map)
    /\ \A other \in IdSet(skill_map) \ {sid} :
          Get(mastery_by_skill, sid, DefaultMastery) < Get(mastery_by_skill, other, DefaultMastery)

NothingPicked ==
    LET ch == PlanChoices(skill_map, mastery_by_skill, reinforce_skills, retry_skills,
                          top_gap_pool)
    IN ch.focus_ids = <<>> /\ ch.review_id = NoSkill

\* C16: when generate_day_plan selects no focus skill and no review skill, the plan
\* schedules a task for the catalog skill with the lowest mastery. Stated where the
\* lowest mastery belongs to one skill only and the queues are empty, so that the whole
\* budget is free for it.
C16_FallsBackToLowestMastery ==
    (Planned /\ NothingPicked /\ retry_skills = <<>> /\ reinforce_skills = <<>>)
        => \A sid \in IdSet(skill_map) :
              StrictlyLowest(sid) => \E i \in 1..Len(day_plan.items) : day_plan.items[i].skill_id = sid

-----------------------------------------------------------------------------
(* Claims about the prerequisite primers *)

PrimerItems ==
    {i \in 1..Len(day_plan.items) :
        /\ day_plan.items[i].task_type = "review"
        /\ Head(day_plan.items[i].success_check) = "primer"}

PrimerNotes == {j \in 1..Len(day_plan.notes) : Head(day_plan.notes[j]) = "primer-note"}

\* C17: the notes of a DayPlan hold a prerequisite-primer note exactly when a primer
\* task was inserted: the number of primer notes equals the number of primer items.
C17_PrimerNotesMatchPrimerItems ==
    Planned => Cardinality(PrimerNotes) = Cardinality(PrimerItems)

-----------------------------------------------------------------------------
(* Claims about the order of the items *)

\* a place of the fixed precedence: the task type, the skill (NoSkill: any skill) and
\* the head of the success check (the empty string: any check)
Slot(task_type, sid, check) == [task_type |-> task_type, skill_id |-> sid, check |-> check]

Fills(item, slot) ==
    /\ item.task_type = slot.task_type
    /\ slot.skill_id = NoSkill \/ item.skill_id = slot.skill_id
    /\ slot.check = "" \/ Head(item.success_check) = slot.check

RECURSIVE FocusSlots(_, _)
FocusSlots(focus_ids, i) ==
    IF i > Len(focus_ids) THEN <<>>
    ELSE << Slot("review", NoSkill, "primer"), Slot("learn", focus_ids[i], "learn"),
            Slot("practice", focus_ids[i], ""), Slot("explain", focus_ids[i], "explain") >>
         \o FocusSlots(focus_ids, i + 1)

\* the places in their precedence: retry, reinforce, per focus skill the primer, learn,
\* practice and explain, the review, the overflow
Precedence ==
    LET ch == PlanChoices(skill_map, mastery_by_skill, reinforce_skills, retry_skills,
                          top_gap_pool)
        rt == FilterIn(SliceTo(retry_skills, 2), IdSet(skill_map))
        rf == FilterIn(SliceTo(reinforce_skills, 2), IdSet(skill_map))
    IN [k \in 1..Len(rt) |-> Slot("learn", rt[k], "retry")]
       \o [k \in 1..Len(rf) |-> Slot("practice", rf[k], "")]
       \o FocusSlots(ch.focus_ids, 1)
       \o (IF ch.review_id # NoSkill THEN <<Slot("review", ch.review_id, "review")>> ELSE <<>>)
       \o <<Slot("practice", NoSkill, "")>>

\* the items from the i-th on fill places from the j-th on, in order, each place at
\* most once
RECURSIVE InPrecedence(_, _, _, _)
InPrecedence(items, i, slots, j) ==
    IF i > Len(items) THEN TRUE
    ELSE IF j > Len(slots) THEN FALSE
    ELSE IF Fills(items[i], slots[j]) THEN InPrecedence(items, i + 1, slots, j + 1)
    ELSE InPrecedence(items, i, slots, j + 1)

\* C18: the items of every DayPlan appear in the fixed precedence (retry learn tasks,
\* reinforce practice tasks, per focus skill an optional primer then learn, practice and
\* explain, at most one review task, at most one overflow practice task), no task of a
\* later group before one of an earlier group; and no item follows one that reaches the
\* daily budget.
C18_ItemsInFixedPrecedence ==
    Planned =>
      /\ InPrecedence(day_plan.items, 1, Precedence, 1)
      /\ \A k \in 1..(Len(day_plan.items) - 1) :
            SumMinutes(SubSeq(day_plan.items, 1, k), 1) < EffectiveMinutes(minutes_per_day)

\* C18 witness: a plan of 120 minutes with a retry task, a reinforce task, the three
\* tasks of the first focus skill, a primer and the learn task of the second focus
\* skill, which reaches the budget.
C18_Witness ==
    /\ Planned
    /\ minutes_per_day = 120
    /\ Len(day_plan.items) = 7
    /\ Head(day_plan.items[1].success_check) = "retry"
    /\ day_plan.items[2].task_type = "practice"
    /\ day_plan.items[3].skill_id # day_plan.items[7].skill_id
    /\ day_plan.items[5].task_type = "explain"
    /\ 6 \in PrimerItems
    /\ day_plan.items[7].task_type = "learn"
    /\ SumMinutes(day_plan.items, 1) = 120

-----------------------------------------------------------------------------
(* Claims about the focus skills *)

\* the candidate pool: the retry list, the reinforce list and the first top_gap_pool ids
\* of the ranking by mastery, those of the catalog
C19_Pool ==
    LET top == SliceTo(RankGapsByMastery(skill_map, mastery_by_skill), top_gap_pool)
    IN (Range(retry_skills) \cup Range(reinforce_skills)
          \cup {top[i].skill_id : i \in 1..Len(top)}) \cap IdSet(skill_map)

C19_Focus ==
    PlanChoices(skill_map, mastery_by_skill, reinforce_skills, retry_skills, top_gap_pool).focus_ids

C19_Mastery(sid) == Get(mastery_by_skill, sid, DefaultMastery)

\* the skills the plan gives a task of the learn / practice / explain block
C19_BlockSkills ==
    {day_plan.items[i].skill_id : i \in {j \in 1..Len(day_plan.items) :
        \/ Head(day_plan.items[j].success_check) \in {"learn", "explain"}
        \/ day_plan.items[j].task_type = "practice" /\ j > 1
             /\ Head(day_plan.items[j - 1].success_check) = "learn"}}

\* C19: the focus skills are at most 2 distinct catalog skills of the candidate pool,
\* each of mastery below 0.80, in ascending order of mastery, and no pool member of
\* mastery below 0.80 that was not chosen has a mastery strictly below a chosen one;
\* the learn / practice / explain blocks of the plan are for focus skills only.
C19_FocusSkillsAreTheLowestOfThePool ==
    Planned =>
      LET f    == C19_Focus
          pool == C19_Pool
      IN /\ Len(f) <= 2
         /\ \A i, j \in 1..Len(f) : i # j => f[i] # f[j]
         /\ Range(f) \subseteq pool
         /\ \A i \in 1..Len(f) : C19_Mastery(f[i]) < FocusCeiling
         /\ \A i, j \in 1..Len(f) : i < j => C19_Mastery(f[i]) <= C19_Mastery(f[j])
         /\ \A p \in pool \ Range(f) :
               C19_Mastery(p) < FocusCeiling
                 => \A i \in 1..Len(f) : C19_Mastery(p) >= C19_Mastery(f[i])
         /\ C19_BlockSkills \subseteq Range(f)

\* C19 witness: the retry list puts ml_basics first in the pool, two skills of lower
\* mastery are chosen before it, and both have their block in the plan.
C19_Witness ==
    /\ Planned
    /\ retry_skills = <<"ml_basics">>
    /\ Len(C19_Focus) = 2
    /\ "ml_basics" \in C19_Pool \ Range(C19_Focus)
    /\ C19_Mastery("ml_basics") < FocusCeiling
    /\ C19_Mastery(C19_Focus[1]) < C19_Mastery("ml_basics")
    /\ C19_BlockSkills = Range(C19_Focus)

-----------------------------------------------------------------------------
(* Claims about the overflow task *)

\* how many items, from the first on, fill the places in order
RECURSIVE FitCount(_, _, _, _)
FitCount(items, i, slots, j) ==
    IF i > Len(items) THEN Len(items)
    ELSE IF j > Len(slots) THEN i - 1
    ELSE IF Fills(items[i], slots[j]) THEN FitCount(items, i + 1, slots, j + 1)
    ELSE FitCount(items, i, slots, j + 1)

\* the items of the retry, reinforce, focus and review places
C20_Before ==
    SubSeq(day_plan.items, 1,
           FitCount(day_plan.items, 1, SubSeq(Precedence, 1, Len(Precedence) - 1), 1))

\* the ranking by mastery without the skills those items schedule
C20_Unscheduled(before) ==
    SelectSeq(RankGapsByMastery(skill_map, mastery_by_skill),
              LAMBDA g : \A i \in 1..Len(before) : before[i].skill_id # g.skill_id)

C20_Left(before) == EffectiveMinutes(minutes_per_day) - SumMinutes(before, 1)

\* C20: a plan holds at most one overflow task; it is there exactly when budget remains
\* after the retry, reinforce, focus and review tasks and some catalog skill is not yet
\* scheduled; it is a practice task of at most 15 minutes, within what remains, for the
\* first skill of the ranking by mastery that no earlier item schedules.
C20_AtMostOneOverflowTask ==
    Planned =>
      LET before      == C20_Before
          unscheduled == C20_Unscheduled(before)
          left        == C20_Left(before)
          rest        == Len(day_plan.items) - Len(before)
          last        == day_plan.items[Len(day_plan.items)]
      IN /\ rest <= 1
         /\ rest = 1 <=> (left > 0 /\ unscheduled # <<>>)
         /\ rest = 1 =>
               /\ last.task_type = "practice"
               /\ last.minutes <= ShortBlock
               /\ last.minutes <= left
               /\ last.skill_id = unscheduled[1].skill_id

\* C20 witness: a plan of several items whose last is the overflow task, trimmed to the
\* minutes left, for a skill that is not the first of the ranking.
C20_Witness ==
    /\ Planned
    /\ Len(day_plan.items) >= 4
    /\ Len(day_plan.items) = Len(C20_Before) + 1
    /\ day_plan.items[Len(day_plan.items)].minutes < ShortBlock
    /\ day_plan.items[Len(day_plan.items)].skill_id
          # RankGapsByMastery(skill_map, mastery_by_skill)[1].skill_id

\* C20: every catalog skill is scheduled while budget remains, and no overflow task is
\* added.
C20_EverySkillScheduled ==
    /\ Planned
    /\ Len(skill_map) = 3
    /\ Len(day_plan.items) = Len(C20_Before)
    /\ C20_Left(day_plan.items) > 0
    /\ C20_Unscheduled(day_plan.items) = <<>>

-----------------------------------------------------------------------------
(* Claims about the synonym table of extract_skill_coverage *)

\* the table the claim has in effect: the caller's table when one is supplied, an
\* empty one included, and the built-in default only when none is
C21_Table == IF synonym_phrases = None THEN DEFAULT_SYNONYMS ELSE synonym_phrases

\* the keywords of a skill and the phrases of that table for its id, normalized
C21_PhraseSet(skill) ==
    {Normalize(q) : q \in Range(skill.keywords) \cup Range(Get(C21_Table, skill.id, <<>>))}
        \ {<<>>}

\* C21: each skill is matched against its keywords plus the phrases of the supplied
\* synonym table, deduplicated after normalization; a supplied table, an empty one
\* included, is the only source of added phrases, and the default table is used only
\* when no table is supplied.
C21_OnlyTheSuppliedTable ==
    Extracted =>
      \A i \in 1..Len(skill_map) :
        LET ev   == extraction.evidence_by_skill[skill_map[i].id]
            want == {p \in C21_PhraseSet(skill_map[i]) : PhraseInText(Normalize(user_text), p)}
        IN /\ Range(ev.matched_phrases) = want
           /\ ev.match_count = Cardinality(want)

-----------------------------------------------------------------------------
(* Claims about the mastery over the cycles *)

C22_Mastery(m, sid) == Get(m, sid, DefaultMastery)

\* C22: from init_mastery_from_report on, over the plan / feedback cycles with the
\* default deltas, no step lowers the mastery of a skill (a skill without an entry reads
\* as 0.05), and every mastery stays in [0,1].
C22_MasteryNeverFalls ==
    [][pc # "loop" =>
         /\ \A sid \in SkillIds \cup {GhostId} :
               C22_Mastery(mastery_by_skill', sid) >= C22_Mastery(mastery_by_skill, sid)
         /\ InUnit(mastery_by_skill')]_vars

\* C22 witness: the third day's plan, after a first feedback that took ml_basics from
\* 0.95 to the ceiling of 1 and a second one that gave an id outside the catalog its
\* first entry.
C22_Witness ==
    /\ pc = "loop_planned"
    /\ day = 3
    /\ deltas = DefaultDeltas
    /\ report.coverage_by_skill["ml_basics"] = 95
    /\ C22_Mastery(mastery_by_skill, "ml_basics") = One
    /\ GhostId \in DOMAIN mastery_by_skill
    /\ mastery_by_skill[GhostId] > DefaultMastery

====
